---- MODULE Spec2Model ----
(***************************************************************************)
(* Portfolio ledger (portfolio.py) and trade validation / execution        *)
(* (trades.py) of trader-sim.                                              *)
(*                                                                         *)
(* Money is counted in cents.  cash, prices and avg_price are integers of  *)
(* cents; cost_basis is an exact rational <<num, den>> of cents because a  *)
(* partial sell multiplies it by (1 - shares/holding.shares).  Python's    *)
(* floats are modelled as exact reals; round(x, 2) is the one place where  *)
(* the code rounds, and it is modelled by RoundCents.                      *)
(***************************************************************************)
EXTENDS Integers, Sequences, FiniteSets, TLC

(* ----------------------------- bounds ---------------------------------- *)
MaxShares == 3      \* no holding grows beyond this many shares
MaxTx     == 1      \* no more than this many recorded transactions
MaxDay    == 2      \* advance_day is not called beyond this day
MaxDen    == 2      \* no cost_basis has a denominator beyond this (in lowest terms)
MaxTime   == 800    \* the clock is not followed beyond this many seconds
MaxCash   == 130002 \* no process starts on a ledger with more cash than this

(* --------------------------- configuration ----------------------------- *)
STARTING_CASH == 100000                 \* config.py: STARTING_CASH = 1000 (dollars)

\* the names config.py binds at module level
ConfigNames ==
    {"STARTING_CASH", "SIMULATION_DAYS", "STOCK_UNIVERSE", "SCREENING",
     "INDICATORS", "RISK", "DATA_DIR", "PORTFOLIO_FILE"}

\* RISK["max_position_pct"] = 0.25, as the fraction MaxPositionPctNum / MaxPositionPctDen
MaxPositionPctNum == 1
MaxPositionPctDen == 4
\* RISK["max_positions"]
MaxPositions == 10

\* the blocked / benchmark-only symbols the validator is to refuse
BlockedSymbols == {"SPY"}

(* ------------------------------ inputs --------------------------------- *)
None == -1                              \* Python's None where a price is expected

ActionInputs == {"buy", "SELL", "HOLD"}
SymbolInputs == {"aaa", "SPY", ""}
Prices       == {15000, 15001}          \* prices a caller supplies or the lookup returns
AllShares    == {-1, 0, 1, 2}           \* share counts a caller may pass to execute_trade
PosShares    == {1, 2}                  \* the strictly positive ones
SeedShares   == {2}                     \* share counts of the add_holding calls that open a session's holdings
SeedPrices   == {15000}                 \* and the price those holdings were opened at
Timestamps   == {"t0", "t1"}            \* values of datetime.now().isoformat()

\* the auto-trader: symbols of STOCK_UNIVERSE it deals in, prices the market
\* snapshot quotes them at, dates of its runs, and the trades a response holds
MaxResponse    == 1                     \* no response has more trades than this
TraderSymbols  == {"PLTR", "SOFI"}
SnapshotPrices == {13000, 15000}
Dates          == {"d1", "d2"}
TradeSuggestions ==
    { [action |-> a, symbol |-> y, shares |-> 1] :
        a \in {"buy", "SELL"}, y \in {"PLTR", "aaa"} }

\* Eastern-time weekdays (Monday = 0) and times of day at which the clock is read
Weekdays   == {0, 5}
ClockTimes == { <<9, 34, 59, 999999>>, <<9, 35, 0, 0>>, <<12, 0, 0, 500000>>,
                <<15, 50, 0, 0>>, <<15, 50, 0, 500000>> }

\* market data: closing prices in cents, and close series made of a stretch of
\* equal closes with a few other closes before and after it
MaxTail     == 2                        \* no series ends with more closes than this after the flat stretch
ClosePrices == {9900, 10100}            \* closes other than the 100.00 of the flat stretch
FlatLengths == {47, 50}                 \* lengths of the flat stretch
MetaPrices  == {None, 10050}            \* meta.regularMarketPrice of a chart response
StepBars    == {5, 14, 20}              \* a series may step up to 101.00 this many bars before its end
BarRanges   == {40, 50}                 \* a bar's high and low lie this far from its close
BarVolume   == 600000                   \* shares traded in each bar of a chart
\* the charts screened: flat series with this close, bar range and volume.  The
\* first lies on every threshold of SCREENING, each of the others off one.
ScreenBars ==
    { <<50000, 50, 500000>>, <<50001, 50, 500000>>, <<100, 50, 500000>>,
      <<99, 50, 500000>>, <<50000, 49, 500000>>, <<50000, 50, 499999>> }
\* what an endpoint may answer: 429, another status, 200 with a chart, 200
\* without one, or no answer (a RequestException)
Answers     == {"429", "500", "chart", "empty", "error"}
TimeSteps   == {100, 200}               \* seconds that may pass between two calls
\* the symbol lists handed to screen_stocks
ScreenSymbols == {<< >>, <<"PLTR">>, <<"PLTR", "SOFI">>}

\* price maps a caller hands to get_holdings_value and get_total_value: no
\* price is negative, some symbols have none, some are not held
ValuationPrices  == {0, 15001}
ValuationSymbols == {"AAA", "SPY", "QQQ"}

\* str.upper() on the inputs above
upper(s) ==
    CASE s = "buy" -> "BUY"
      [] s = "aaa" -> "AAA"
      [] OTHER     -> s

(* --------------------------- exact rationals --------------------------- *)
Abs(x) == IF x < 0 THEN -x ELSE x

RECURSIVE Gcd(_, _)
Gcd(a, b) == IF b = 0 THEN a ELSE Gcd(b, a % b)

\* a rational in lowest terms with a positive denominator
Rat(n, d) ==
    LET s == IF d < 0 THEN -1 ELSE 1
        g == Gcd(Abs(n), Abs(d))
    IN  IF n = 0 THEN <<0, 1>> ELSE <<(s * n) \div g, (s * d) \div g>>

RatOfInt(i)  == <<i, 1>>
RatAdd(a, b) == Rat(a[1] * b[2] + b[1] * a[2], a[2] * b[2])
RatSub(a, b) == Rat(a[1] * b[2] - b[1] * a[2], a[2] * b[2])
RatMul(a, b) == Rat(a[1] * b[1], a[2] * b[2])
RatDiv(a, b) == Rat(a[1] * b[2], a[2] * b[1])

\* round(x, 2) of an amount x = r cents: the nearest whole cent.  On an exact
\* tie the result of Python's round depends on the binary representation of the
\* float (round(10.125, 2) = 10.12, round(0.375, 2) = 0.38), so both neighbours
\* are possible results.
RoundCents(r) ==
    LET q   == r[1] \div r[2]
        rem == r[1] - q * r[2]
    IN  IF 2 * rem < r[2] THEN {q}
        ELSE IF 2 * rem > r[2] THEN {q + 1}
        ELSE {q, q + 1}

\* int(x) of a float x: the integer part, rounding toward zero
int(r) == IF r[1] >= 0 THEN r[1] \div r[2] ELSE -((-r[1]) \div r[2])

min(a, b) == IF a <= b THEN a ELSE b
Min(S)    == CHOOSE x \in S : \A y \in S : x <= y
max(a, b) == IF a >= b THEN a ELSE b

(* ------------------------------- state --------------------------------- *)
VARIABLES
    cash,           \* Portfolio.cash
    holdings,       \* Portfolio.holdings: symbol -> Holding
    transactions,   \* Portfolio.transactions
    start_date,     \* Portfolio.start_date
    day,            \* Portfolio.day
    persisted,      \* PORTFOLIO_FILE: {} when absent, else {its content}
    last,           \* the last call made on the ledger: what it returned, whether it saved
    lots,           \* per symbol, the add_holding calls since the holding was opened
    pc,             \* where the process is: "idle", or inside the save that ends a trade
    pre,            \* PORTFOLIO_FILE as it was when the save in progress began
    other,          \* the Portfolio object of a second process on the same file
    daily_trades,   \* claude_trader._daily_trades of the auto-trader process
    _rate_limited,      \* market_data._rate_limited
    _rate_limit_until,  \* market_data._rate_limit_until, in seconds
    time                \* time.time(), in seconds since the process began

\* the globals of market_data.py behind the chart requests, and the clock
yahoo == <<_rate_limited, _rate_limit_until, time>>

vars == <<cash, holdings, transactions, start_date, day, persisted, last, lots,
          pc, pre, other, daily_trades, yahoo>>

\* the Portfolio object as a value
Portfolio == [cash |-> cash, holdings |-> holdings,
              transactions |-> transactions, start_date |-> start_date,
              day |-> day]

\* Portfolio.__init__ before it loads, constructed at the time now
Fresh(now) == [cash |-> STARTING_CASH, holdings |-> << >>,
               transactions |-> << >>, start_date |-> now, day |-> 1]

Holding(symbol, shares, cost_basis, avg_price) ==
    [symbol |-> symbol, shares |-> shares,
     cost_basis |-> cost_basis, avg_price |-> avg_price]

Transaction(action, symbol, shares, price) ==
    [action |-> action, symbol |-> symbol, shares |-> shares, price |-> price,
     total |-> shares * price]

\* dict with key k set to v / with key k deleted
DictSet(d, k, v) == [x \in (DOMAIN d) \cup {k} |-> IF x = k THEN v ELSE d[x]]
DictDel(d, k)    == [x \in (DOMAIN d) \ {k} |-> d[x]]

(* ------------------------ portfolio.py: Portfolio ---------------------- *)
\* Holding.to_dict / Transaction.to_dict: asdict, a dict with one key per field
to_dict(x) == [f \in DOMAIN x |-> x[f]]

HoldingFields     == {"symbol", "shares", "cost_basis", "avg_price"}
TransactionFields == {"action", "symbol", "shares", "price", "total"}

\* cls(**data) takes exactly the fields of the dataclass
CanBuild(data, fields) == DOMAIN data = fields

\* Holding.from_dict
Holding_from_dict(data) ==
    Holding(data.symbol, data.shares, data.cost_basis, data.avg_price)

\* Transaction.from_dict: the total is the one stored, not recomputed
Transaction_from_dict(data) ==
    [action |-> data.action, symbol |-> data.symbol, shares |-> data.shares,
     price |-> data.price, total |-> data.total]

\* the content of a file: the top-level members of the JSON object that reached
\* it, in the order written, and whether the object was written to its end
File(members, closed) == [members |-> members, closed |-> closed]

\* the dict save builds, as json.dump writes it (numbers are written with repr
\* and read back to the same value)
Document(p) ==
    << <<"cash", p.cash>>,
       <<"holdings", [k \in DOMAIN p.holdings |-> to_dict(p.holdings[k])]>>,
       <<"transactions",
         [i \in DOMAIN p.transactions |-> to_dict(p.transactions[i])]>>,
       <<"start_date", p.start_date>>,
       <<"day", p.day>> >>

\* open(PORTFOLIO_FILE, 'w'): the file exists and is empty
Truncated == {File(<< >>, FALSE)}

\* Portfolio.save: the whole state replaces the content of PORTFOLIO_FILE
save(p) == {File(Document(p), TRUE)}

\* data.get(key, default)
Has(members, key) == \E i \in DOMAIN members : members[i][1] = key
Get(members, key, default) ==
    IF Has(members, key)
    THEN members[CHOOSE i \in DOMAIN members : members[i][1] = key][2]
    ELSE default

\* _load as it would be if start_date were left as the constructor set it
_load_keeps_start_date(p, file, now) ==
    IF file = {} THEN p
    ELSE LET f == CHOOSE x \in file : TRUE IN
         IF ~f.closed THEN p
         ELSE LET m  == f.members
                  p1 == [p EXCEPT !.cash = Get(m, "cash", STARTING_CASH)]
                  hs == Get(m, "holdings", << >>)
                  ts == Get(m, "transactions", << >>)
              IN  IF \E k \in DOMAIN hs : ~CanBuild(hs[k], HoldingFields)
                  THEN p1
                  ELSE LET p2 == [p1 EXCEPT !.holdings =
                                     [k \in DOMAIN hs |-> Holding_from_dict(hs[k])]]
                       IN  IF \E i \in DOMAIN ts : ~CanBuild(ts[i], TransactionFields)
                           THEN p2
                           ELSE [p2 EXCEPT
                                   !.transactions =
                                       [i \in DOMAIN ts |-> Transaction_from_dict(ts[i])],
                                   !.day = Get(m, "day", 1)]

\* _load as it would be if a file without one of the five members were not read
_load_needs_every_member(p, file, now) ==
    IF file = {} THEN p
    ELSE LET f == CHOOSE x \in file : TRUE IN
         IF ~f.closed
            \/ \E key \in {"cash", "holdings", "transactions", "start_date", "day"} :
                 ~Has(f.members, key)
         THEN p
         ELSE LET m == f.members
                  hs == Get(m, "holdings", << >>)
                  ts == Get(m, "transactions", << >>)
              IN  [cash |-> Get(m, "cash", STARTING_CASH),
                   holdings |-> [k \in DOMAIN hs |-> Holding_from_dict(hs[k])],
                   transactions |-> [i \in DOMAIN ts |-> Transaction_from_dict(ts[i])],
                   start_date |-> Get(m, "start_date", now),
                   day |-> Get(m, "day", 1)]

\* Portfolio._load on the object p, at the time now: the object it leaves.  A
\* file that is not a whole JSON document makes json.load raise before anything
\* is assigned; a holding or transaction that cannot be built raises after the
\* fields before it have been assigned.  The exception is caught and printed.
_load(p, file, now) ==
    IF file = {} THEN p
    ELSE LET f == CHOOSE x \in file : TRUE IN
         IF ~f.closed THEN p
         ELSE LET m  == f.members
                  p1 == [p EXCEPT !.cash = Get(m, "cash", STARTING_CASH)]
                  hs == Get(m, "holdings", << >>)
                  ts == Get(m, "transactions", << >>)
              IN  IF \E k \in DOMAIN hs : ~CanBuild(hs[k], HoldingFields)
                  THEN p1
                  ELSE LET p2 == [p1 EXCEPT !.holdings =
                                     [k \in DOMAIN hs |-> Holding_from_dict(hs[k])]]
                       IN  IF \E i \in DOMAIN ts : ~CanBuild(ts[i], TransactionFields)
                           THEN p2
                           ELSE [p2 EXCEPT
                                   !.transactions =
                                       [i \in DOMAIN ts |-> Transaction_from_dict(ts[i])],
                                   !.start_date = Get(m, "start_date", now),
                                   !.day = Get(m, "day", 1)]

\* Portfolio(): the defaults, then _load
NewPortfolio(file, now) == _load(Fresh(now), file, now)

\* reset as it would be if the history were kept
reset_keeps_transactions(p, now) ==
    [Fresh(now) EXCEPT !.transactions = p.transactions]

\* Portfolio.reset up to its save, at the time now
reset(p, now) == Fresh(now)

\* advance_day as it would be if the counter skipped a day
advance_day_skips_a_day(p) == [p EXCEPT !.day = p.day + 2]

\* Portfolio.advance_day up to its save
advance_day(p) == [p EXCEPT !.day = p.day + 1]

\* add_holding as it would be if the new average were taken from the stored
\* (already rounded) average instead of from the cost basis
add_holding_accumulates(h, symbol, shares, price) ==
    LET total_cost == shares * price IN
    IF symbol \in DOMAIN h
    THEN LET existing       == h[symbol]
             new_shares     == existing.shares + shares
             new_cost_basis == RatAdd(existing.cost_basis, RatOfInt(total_cost))
             new_avg_price  ==
                 Rat(existing.avg_price * existing.shares + total_cost, new_shares)
         IN  { DictSet(h, symbol, Holding(symbol, new_shares, new_cost_basis, a)) :
                 a \in RoundCents(new_avg_price) }
    ELSE { DictSet(h, symbol, Holding(symbol, shares, RatOfInt(total_cost), price)) }

\* Portfolio.add_holding: the holdings mappings the call can leave (more than
\* one only when round() meets an exact tie)
add_holding(h, symbol, shares, price) ==
    LET total_cost == shares * price IN
    IF symbol \in DOMAIN h
    THEN LET existing       == h[symbol]
             new_shares     == existing.shares + shares
             new_cost_basis == RatAdd(existing.cost_basis, RatOfInt(total_cost))
             new_avg_price  == RatDiv(new_cost_basis, RatOfInt(new_shares))
         IN  { DictSet(h, symbol, Holding(symbol, new_shares, new_cost_basis, a)) :
                 a \in RoundCents(new_avg_price) }
    ELSE { DictSet(h, symbol, Holding(symbol, shares, RatOfInt(total_cost), price)) }

\* remove_holding as it would be if a partial sell left the cost basis as it was
remove_holding_keeps_cost(h, symbol, shares, price) ==
    IF symbol \notin DOMAIN h
    THEN [exc |-> "ValueError", message |-> "No holding", holdings |-> h]
    ELSE LET holding == h[symbol] IN
         IF shares > holding.shares
         THEN [exc |-> "ValueError", message |-> "Insufficient shares", holdings |-> h]
         ELSE IF shares = holding.shares
         THEN [exc |-> "", message |-> "", holdings |-> DictDel(h, symbol)]
         ELSE [exc |-> "", message |-> "",
               holdings |-> DictSet(h, symbol,
                   Holding(symbol, holding.shares - shares, holding.cost_basis,
                           holding.avg_price))]

\* remove_holding as it would be if a partial sell took the sale proceeds off the
\* cost basis
remove_holding_sale_price(h, symbol, shares, price) ==
    IF symbol \notin DOMAIN h
    THEN [exc |-> "ValueError", message |-> "No holding", holdings |-> h]
    ELSE LET holding == h[symbol] IN
         IF shares > holding.shares
         THEN [exc |-> "ValueError", message |-> "Insufficient shares", holdings |-> h]
         ELSE IF shares = holding.shares
         THEN [exc |-> "", message |-> "", holdings |-> DictDel(h, symbol)]
         ELSE [exc |-> "", message |-> "",
               holdings |-> DictSet(h, symbol,
                   Holding(symbol, holding.shares - shares,
                           RatSub(holding.cost_basis, RatOfInt(shares * price)),
                           holding.avg_price))]

\* remove_holding as it would be if selling every share kept the holding, empty
remove_holding_keeps_empty(h, symbol, shares, price) ==
    IF symbol \notin DOMAIN h
    THEN [exc |-> "ValueError", message |-> "No holding", holdings |-> h]
    ELSE LET holding == h[symbol] IN
         IF shares > holding.shares
         THEN [exc |-> "ValueError", message |-> "Insufficient shares", holdings |-> h]
         ELSE LET sell_ratio           == Rat(shares, holding.shares)
                  remaining_shares     == holding.shares - shares
                  remaining_cost_basis ==
                      RatMul(holding.cost_basis, RatSub(RatOfInt(1), sell_ratio))
              IN  [exc |-> "", message |-> "",
                   holdings |-> DictSet(h, symbol,
                       Holding(symbol, remaining_shares, remaining_cost_basis,
                               holding.avg_price))]

\* remove_holding as it would be if an order for more than is held sold what is
\* there
remove_holding_sells_what_is_held(h, symbol, shares, price) ==
    IF symbol \notin DOMAIN h
    THEN [exc |-> "ValueError", message |-> "No holding", holdings |-> h]
    ELSE LET holding == h[symbol] IN
         IF shares >= holding.shares
         THEN [exc |-> "", message |-> "", holdings |-> DictDel(h, symbol)]
         ELSE LET sell_ratio           == Rat(shares, holding.shares)
                  remaining_shares     == holding.shares - shares
                  remaining_cost_basis ==
                      RatMul(holding.cost_basis, RatSub(RatOfInt(1), sell_ratio))
              IN  [exc |-> "", message |-> "",
                   holdings |-> DictSet(h, symbol,
                       Holding(symbol, remaining_shares, remaining_cost_basis,
                               holding.avg_price))]

\* Portfolio.remove_holding: exc names the exception raised ("" when none) and
\* message the text it carries
remove_holding(h, symbol, shares, price) ==
    IF symbol \notin DOMAIN h
    THEN [exc |-> "ValueError", message |-> "No holding", holdings |-> h]
    ELSE LET holding == h[symbol] IN
         IF shares > holding.shares
         THEN [exc |-> "ValueError", message |-> "Insufficient shares", holdings |-> h]
         ELSE IF shares = holding.shares
         THEN [exc |-> "", message |-> "", holdings |-> DictDel(h, symbol)]
         ELSE LET sell_ratio           == Rat(shares, holding.shares)
                  remaining_shares     == holding.shares - shares
                  remaining_cost_basis ==
                      RatMul(holding.cost_basis, RatSub(RatOfInt(1), sell_ratio))
              IN  [exc |-> "", message |-> "",
                   holdings |-> DictSet(h, symbol,
                       Holding(symbol, remaining_shares, remaining_cost_basis,
                               holding.avg_price))]

\* record_transaction as it would be if the list were rebuilt from the new entry
record_transaction_overwrites(txs, action, symbol, shares, price) ==
    << Transaction(action, symbol, shares, price) >>

\* Portfolio.record_transaction (the timestamp is not modelled)
record_transaction(txs, action, symbol, shares, price) ==
    Append(txs, Transaction(action, symbol, shares, price))

RECURSIVE SumOver(_, _, _)
SumOver(h, prices, syms) ==
    IF syms = {} THEN 0
    ELSE LET s == CHOOSE x \in syms : TRUE
         IN  (IF s \in DOMAIN prices
              THEN h[s].shares * prices[s]
              ELSE h[s].shares * h[s].avg_price)
             + SumOver(h, prices, syms \ {s})

\* get_holdings_value as it would be if a holding without a price counted for nothing
get_holdings_value_skips_unpriced(p, prices) ==
    IF DOMAIN p.holdings = {} THEN {0}
    ELSE RoundCents(RatOfInt(SumOver(p.holdings, prices,
                                     DOMAIN p.holdings \cap DOMAIN prices)))

\* Portfolio.get_holdings_value(prices); prices maps the symbols that have one
get_holdings_value(p, prices) ==
    IF DOMAIN p.holdings = {} THEN {0}
    ELSE RoundCents(RatOfInt(SumOver(p.holdings, prices, DOMAIN p.holdings)))

\* get_total_value as it would be if the cash were taken off the holdings value
get_total_value_nets_cash(p, prices) ==
    UNION { RoundCents(RatOfInt(hv - p.cash)) : hv \in get_holdings_value(p, prices) }

\* Portfolio.get_total_value(prices)
get_total_value(p, prices) ==
    UNION { RoundCents(RatOfInt(p.cash + hv)) : hv \in get_holdings_value(p, prices) }

\* market_data.get_current_prices(symbols): any price per symbol; a symbol whose
\* lookup gives nothing (None or 0) is left out of the result
get_current_prices(symbols) ==
    UNION { [have -> Prices] : have \in SUBSET symbols }

(* ------------------------------ trades.py ------------------------------ *)
\* a message: its fixed text, and the figures formatted into it that are kept
\* (the shares owned and asked for, the realized P&L)
Msg(text, args) == [text |-> text, args |-> args]
Text(text)      == Msg(text, << >>)

TradeResult(success, message, symbol, action, shares, price, total) ==
    [kind |-> "TradeResult", success |-> success, message |-> message,
     symbol |-> symbol, action |-> action, shares |-> shares, price |-> price,
     total |-> total]

\* a TradeResult built with success and message only: the other fields keep
\* the dataclass defaults
Failure(message) == TradeResult(FALSE, message, "", "", 0, 0, 0)

\* an exception leaving the call instead of a TradeResult
Raised(exc) ==
    [kind |-> "exception", success |-> FALSE, message |-> Text(exc),
     symbol |-> "", action |-> "", shares |-> 0, price |-> 0, total |-> 0]

\* what a call does: the portfolio it leaves, whether it saved, what it returned
Outcome(p, saved, result) == [p |-> p, saved |-> saved, result |-> result]

\* `from config import NAME`
ImportFromConfig(name) == IF name \in ConfigNames THEN "" ELSE "ImportError"

\* validate_buy, lines 30-51 (after the import), with total_value as looked up
validate_buy_checks(p, symbol, shares, price, total_value) ==
    LET total_cost     == shares * price
        position_value == total_cost
                          + (IF symbol \in DOMAIN p.holdings
                             THEN p.holdings[symbol].shares * price ELSE 0)
    IN  IF total_cost > p.cash
        THEN IF price = 0
             THEN [exc |-> "ZeroDivisionError", valid |-> FALSE, message |-> Text("")]
             ELSE [exc |-> "", valid |-> FALSE,
                   message |-> Msg("Insufficient cash", <<int(Rat(p.cash, price))>>)]
        ELSE IF total_value = 0
        THEN [exc |-> "ZeroDivisionError", valid |-> FALSE, message |-> Text("")]
        ELSE IF (IF total_value > 0
                 THEN position_value * MaxPositionPctDen > MaxPositionPctNum * total_value
                 ELSE position_value * MaxPositionPctDen < MaxPositionPctNum * total_value)
        THEN [exc |-> "", valid |-> FALSE, message |-> Text("Position would exceed")]
        ELSE IF symbol \notin DOMAIN p.holdings
                /\ Cardinality(DOMAIN p.holdings) >= MaxPositions
        THEN [exc |-> "", valid |-> FALSE, message |-> Text("Max positions")]
        ELSE [exc |-> "", valid |-> TRUE, message |-> Text("Valid")]

\* validate_buy line 38, portfolio.get_total_value(): with no prices passed,
\* get_holdings_value looks the held symbols' prices up again
buy_total_values(p) ==
    UNION { get_total_value(p, prices) :
              prices \in get_current_prices(DOMAIN p.holdings) }

\* validate_buy: the verdicts the call can give.  Its first statement imports
\* BENCHMARK_ONLY from config, which config.py does not define.
validate_buy(p, symbol, shares, price) ==
    IF ImportFromConfig("BENCHMARK_ONLY") # ""
    THEN { [exc |-> ImportFromConfig("BENCHMARK_ONLY"), valid |-> FALSE, message |-> Text("")] }
    ELSE IF shares * price > p.cash
    THEN { validate_buy_checks(p, symbol, shares, price, 0) }
    ELSE { validate_buy_checks(p, symbol, shares, price, tv) :
             tv \in buy_total_values(p) }

\* validate_sell as it would be if it accepted any count of a held symbol
validate_sell_any_count(p, symbol, shares) ==
    IF symbol \notin DOMAIN p.holdings
    THEN [valid |-> FALSE, message |-> Text("No position")]
    ELSE [valid |-> TRUE, message |-> Text("Valid")]

\* validate_sell
validate_sell(p, symbol, shares) ==
    IF symbol \notin DOMAIN p.holdings
    THEN [valid |-> FALSE, message |-> Text("No position")]
    ELSE IF shares > p.holdings[symbol].shares
    THEN [valid |-> FALSE,
          message |-> Msg("Insufficient shares", <<p.holdings[symbol].shares, shares>>)]
    ELSE [valid |-> TRUE, message |-> Text("Valid")]

\* execute_buy as it would be if the cash were taken before the order is validated
execute_buy_debits_first(p, symbol, shares, price, lookup) ==
    LET px == IF price = None THEN lookup ELSE price IN
    IF px = None
    THEN { Outcome(p, FALSE, Failure(Text("Could not fetch price"))) }
    ELSE LET total_cost == shares * px
             debited    == [p EXCEPT !.cash = p.cash - total_cost]
         IN  UNION {
               IF v.exc # "" THEN { Outcome(debited, FALSE, Raised(v.exc)) }
               ELSE IF ~v.valid THEN { Outcome(debited, FALSE, Failure(v.message)) }
               ELSE { LET q == [debited EXCEPT !.holdings = h,
                                               !.transactions =
                                                   record_transaction(p.transactions, "BUY",
                                                                      symbol, shares, px)]
                      IN  Outcome(q, TRUE,
                                  TradeResult(TRUE, Text("Bought"), symbol, "BUY", shares, px,
                                              total_cost))
                      : h \in add_holding(p.holdings, symbol, shares, px) }
               : v \in validate_buy(p, symbol, shares, px) }

\* execute_buy; price = None stands for the argument left out, and lookup is
\* what get_current_price(symbol) returns if it is called
execute_buy(p, symbol, shares, price, lookup) ==
    LET px == IF price = None THEN lookup ELSE price IN
    IF px = None
    THEN { Outcome(p, FALSE, Failure(Text("Could not fetch price"))) }
    ELSE UNION {
           IF v.exc # "" THEN { Outcome(p, FALSE, Raised(v.exc)) }
           ELSE IF ~v.valid THEN { Outcome(p, FALSE, Failure(v.message)) }
           ELSE LET total_cost == shares * px IN
                { LET q == [p EXCEPT !.cash = p.cash - total_cost,
                                     !.holdings = h,
                                     !.transactions =
                                         record_transaction(p.transactions, "BUY",
                                                            symbol, shares, px)]
                  IN  Outcome(q, TRUE,
                              TradeResult(TRUE, Text("Bought"), symbol, "BUY", shares, px,
                                          total_cost))
                  : h \in add_holding(p.holdings, symbol, shares, px) }
           : v \in validate_buy(p, symbol, shares, px) }

\* execute_sell as it would be if the proceeds were credited before the order is
\* validated
execute_sell_credits_first(p, symbol, shares, price, lookup) ==
    LET px == IF price = None THEN lookup ELSE price IN
    IF px = None
    THEN { Outcome(p, FALSE, Failure(Text("Could not fetch price"))) }
    ELSE LET v        == validate_sell(p, symbol, shares)
             credited == [p EXCEPT !.cash = p.cash + shares * px]
         IN  IF ~v.valid THEN { Outcome(credited, FALSE, Failure(v.message)) }
             ELSE LET r == remove_holding(p.holdings, symbol, shares, px) IN
                  IF r.exc # "" THEN { Outcome(credited, FALSE, Raised(r.exc)) }
                  ELSE LET q == [credited EXCEPT !.holdings = r.holdings,
                                                 !.transactions =
                                                     record_transaction(p.transactions,
                                                         "SELL", symbol, shares, px)]
                           pnl == (px - p.holdings[symbol].avg_price) * shares
                       IN  { Outcome(q, TRUE,
                                     TradeResult(TRUE, Msg("Sold", <<pnl>>), symbol, "SELL",
                                                 shares, px, shares * px)) }

\* execute_sell as it would be if the result of the lookup were not tested: the
\* order is validated, and the P&L is then computed with None for a price
execute_sell_unchecked_lookup(p, symbol, shares, price, lookup) ==
    LET px == IF price = None THEN lookup ELSE price
        v  == validate_sell(p, symbol, shares)
    IN  IF ~v.valid THEN { Outcome(p, FALSE, Failure(v.message)) }
        ELSE IF px = None THEN { Outcome(p, FALSE, Raised("TypeError")) }
        ELSE LET holding        == p.holdings[symbol]
                 pnl            == (px - holding.avg_price) * shares
                 total_proceeds == shares * px
                 r == remove_holding(p.holdings, symbol, shares, px)
             IN  IF r.exc # "" THEN { Outcome([p EXCEPT !.cash = p.cash + total_proceeds],
                                              FALSE, Raised(r.exc)) }
                 ELSE LET q == [p EXCEPT !.cash = p.cash + total_proceeds,
                                         !.holdings = r.holdings,
                                         !.transactions =
                                             record_transaction(p.transactions, "SELL",
                                                                symbol, shares, px)]
                      IN  { Outcome(q, TRUE,
                                    TradeResult(TRUE, Msg("Sold", <<pnl>>), symbol, "SELL",
                                                shares, px, total_proceeds)) }

\* execute_sell as it would be if the cash grew by what the shares had cost
execute_sell_credits_the_cost(p, symbol, shares, price, lookup) ==
    LET px == IF price = None THEN lookup ELSE price IN
    IF px = None
    THEN { Outcome(p, FALSE, Failure(Text("Could not fetch price"))) }
    ELSE LET v == validate_sell(p, symbol, shares) IN
         IF ~v.valid THEN { Outcome(p, FALSE, Failure(v.message)) }
         ELSE LET holding        == p.holdings[symbol]
                  cost_per_share == holding.avg_price
                  pnl            == (px - cost_per_share) * shares
                  total_proceeds == shares * px
                  r == remove_holding(p.holdings, symbol, shares, px)
              IN  IF r.exc # "" THEN { Outcome([p EXCEPT !.cash = p.cash + total_proceeds],
                                               FALSE, Raised(r.exc)) }
                  ELSE LET q == [p EXCEPT !.cash = p.cash + shares * cost_per_share,
                                          !.holdings = r.holdings,
                                          !.transactions =
                                              record_transaction(p.transactions, "SELL",
                                                                 symbol, shares, px)]
                       IN  { Outcome(q, TRUE,
                                     TradeResult(TRUE, Msg("Sold", <<pnl>>), symbol, "SELL",
                                                 shares, px, total_proceeds)) }

\* execute_sell
execute_sell(p, symbol, shares, price, lookup) ==
    LET px == IF price = None THEN lookup ELSE price IN
    IF px = None
    THEN { Outcome(p, FALSE, Failure(Text("Could not fetch price"))) }
    ELSE LET v == validate_sell(p, symbol, shares) IN
         IF ~v.valid THEN { Outcome(p, FALSE, Failure(v.message)) }
         ELSE LET holding        == p.holdings[symbol]
                  cost_per_share == holding.avg_price
                  pnl            == (px - cost_per_share) * shares
                  total_proceeds == shares * px
                  r == remove_holding(p.holdings, symbol, shares, px)
              IN  IF r.exc # "" THEN { Outcome([p EXCEPT !.cash = p.cash + total_proceeds],
                                               FALSE, Raised(r.exc)) }
                  ELSE LET q == [p EXCEPT !.cash = p.cash + total_proceeds,
                                          !.holdings = r.holdings,
                                          !.transactions =
                                              record_transaction(p.transactions, "SELL",
                                                                 symbol, shares, px)]
                       IN  { Outcome(q, TRUE,
                                     TradeResult(TRUE, Msg("Sold", <<pnl>>), symbol, "SELL",
                                                 shares, px, total_proceeds)) }

\* execute_trade
execute_trade(p, action, symbol, shares, price, lookup) ==
    LET a == upper(action)
        s == upper(symbol)
    IN  IF a = "BUY" THEN execute_buy(p, s, shares, price, lookup)
        ELSE IF a = "SELL" THEN execute_sell(p, s, shares, price, lookup)
        ELSE { Outcome(p, FALSE, Failure(Text("Unknown action"))) }

\* get_max_shares as it would be if the shares already held were not counted
get_max_shares_ignores_position(p, symbol, price, lookup) ==
    LET px == IF price = None THEN lookup ELSE price IN
    IF px = None THEN { [exc |-> "", value |-> 0] }
    ELSE IF px = 0 THEN { [exc |-> "ZeroDivisionError", value |-> 0] }
    ELSE { LET max_by_cash      == int(Rat(p.cash, px))
               max_position     ==
                   Rat(total_value * MaxPositionPctNum, MaxPositionPctDen)
               max_by_position  == int(RatDiv(max_position, RatOfInt(px)))
           IN  [exc |-> "", value |-> max(0, min(max_by_cash, max_by_position))]
           : total_value \in buy_total_values(p) }

\* get_max_shares; price = None stands for the argument left out, and lookup is
\* what get_current_price(symbol) returns if it is called.  The total value
\* comes from portfolio.get_total_value(), which looks the prices up itself.
get_max_shares(p, symbol, price, lookup) ==
    LET px == IF price = None THEN lookup ELSE price IN
    IF px = None THEN { [exc |-> "", value |-> 0] }
    ELSE IF px = 0 THEN { [exc |-> "ZeroDivisionError", value |-> 0] }
    ELSE { LET max_by_cash      == int(Rat(p.cash, px))
               max_position     ==
                   Rat(total_value * MaxPositionPctNum, MaxPositionPctDen)
               current_position ==
                   IF symbol \in DOMAIN p.holdings
                   THEN p.holdings[symbol].shares * px ELSE 0
               remaining_allocation ==
                   RatSub(max_position, RatOfInt(current_position))
               max_by_position  == int(RatDiv(remaining_allocation, RatOfInt(px)))
           IN  [exc |-> "", value |-> max(0, min(max_by_cash, max_by_position))]
           : total_value \in buy_total_values(p) }

(* -------------------- strategy_config.py, claude_trader.py ------------- *)
\* GUARDRAILS; amounts of money in cents, max_position_pct = 0.25 as <<1, 4>>
GUARDRAILS ==
    [max_position_pct    |-> <<1, 4>>,
     max_positions       |-> 8,
     min_position_value  |-> 2000,
     max_daily_trades    |-> 8,
     max_daily_buys      |-> 5,
     max_single_loss_pct |-> 12,
     min_cash_reserve    |-> 2500,
     blocked_symbols     |-> {}]

\* SCHEDULE; "09:30" and "16:00" as map(int, s.split(":")) reads them
SCHEDULE ==
    [market_open        |-> <<9, 30>>,
     market_close       |-> <<16, 0>>,
     skip_first_minutes |-> 5,
     skip_last_minutes  |-> 10,
     trade_days         |-> {0, 1, 2, 3, 4}]

\* datetime.now(et): the Eastern-time weekday and time of day
datetime(weekday, hour, minute, second, microsecond) ==
    [weekday |-> weekday, hour |-> hour, minute |-> minute, second |-> second,
     microsecond |-> microsecond]

\* the readings of the clock
ClockInputs ==
    { datetime(w, t[1], t[2], t[3], t[4]) : w \in Weekdays, t \in ClockTimes }

\* a <= b for two datetimes of the same day
Seconds(t) == (t.hour * 60 + t.minute) * 60 + t.second
NotAfter(a, b) ==
    \/ Seconds(a) < Seconds(b)
    \/ Seconds(a) = Seconds(b) /\ a.microsecond <= b.microsecond

\* datetime.replace(hour=, minute=, second=): the fields not named are kept;
\* a field out of its range raises ValueError
replace(t, hour, minute, second) ==
    IF hour \in 0 .. 23 /\ minute \in 0 .. 59 /\ second \in 0 .. 59
    THEN [exc |-> "", value |-> [t EXCEPT !.hour = hour, !.minute = minute,
                                           !.second = second]]
    ELSE [exc |-> "ValueError", value |-> t]

\* is_market_hours with now = datetime.now(et); any exception is caught and
\* the function returns False
is_market_hours(now) ==
    IF now.weekday \notin SCHEDULE.trade_days THEN FALSE
    ELSE LET open_h  == SCHEDULE.market_open[1]
             open_m  == SCHEDULE.market_open[2]
             close_h == SCHEDULE.market_close[1]
             close_m == SCHEDULE.market_close[2]
             market_open  == replace(now, open_h, open_m, 0)
             market_close == replace(now, close_h, close_m, 0)
         IN  IF market_open.exc # "" \/ market_close.exc # "" THEN FALSE
             ELSE LET effective_open ==
                          replace(market_open.value, open_h,
                                  open_m + SCHEDULE.skip_first_minutes, 0)
                      effective_close ==
                          replace(market_close.value, close_h,
                                  close_m - SCHEDULE.skip_last_minutes, 0)
                  IN  IF effective_open.exc # "" \/ effective_close.exc # ""
                      THEN FALSE
                      ELSE /\ NotAfter(effective_open.value, now)
                           /\ NotAfter(now, effective_close.value)

\* _daily_trades as the module sets it when the process starts
NoDailyTrades == [date |-> "", count |-> 0, buys |-> 0]

\* reset_daily_trades_if_needed, today being datetime.now().strftime("%Y-%m-%d")
reset_daily_trades_if_needed(daily, today) ==
    IF daily.date # today THEN [date |-> today, count |-> 0, buys |-> 0] ELSE daily

\* validate_trade: the verdicts the call can give (more than one only through
\* the prices get_total_value looks up); market_data maps the symbols of the
\* snapshot to their analysis record
validate_trade(trade, p, market_data, daily) ==
    LET symbol == upper(trade.symbol)
        action == upper(trade.action)
        shares == trade.shares
    IN  IF symbol = "" \/ action = "" \/ shares <= 0
        THEN { [exc |-> "", valid |-> FALSE, message |-> "Invalid trade format"] }
        ELSE IF symbol \in GUARDRAILS.blocked_symbols
        THEN { [exc |-> "", valid |-> FALSE, message |-> "is blocked"] }
        ELSE IF symbol \notin DOMAIN market_data
        THEN { [exc |-> "", valid |-> FALSE, message |-> "No market data"] }
        ELSE LET price == market_data[symbol].price IN
        IF daily.count >= GUARDRAILS.max_daily_trades
        THEN { [exc |-> "", valid |-> FALSE, message |-> "Max daily trades reached"] }
        ELSE IF action = "BUY"
        THEN IF daily.buys >= GUARDRAILS.max_daily_buys
             THEN { [exc |-> "", valid |-> FALSE, message |-> "Max daily buys reached"] }
             ELSE LET total_cost == shares * price IN
             IF p.cash - total_cost < GUARDRAILS.min_cash_reserve
             THEN { [exc |-> "", valid |-> FALSE,
                     message |-> "Would violate min cash reserve"] }
             ELSE IF total_cost < GUARDRAILS.min_position_value
             THEN { [exc |-> "", valid |-> FALSE, message |-> "Position too small"] }
             ELSE LET new_position_value ==
                          total_cost + (IF symbol \in DOMAIN p.holdings
                                        THEN p.holdings[symbol].shares * price ELSE 0)
                  IN  UNION {
                        IF new_position_value * GUARDRAILS.max_position_pct[2]
                             > total_value * GUARDRAILS.max_position_pct[1]
                        THEN { [exc |-> "", valid |-> FALSE,
                                message |-> "Would exceed max position size"] }
                        ELSE IF symbol \notin DOMAIN p.holdings
                                /\ Cardinality(DOMAIN p.holdings) >= GUARDRAILS.max_positions
                        THEN { [exc |-> "", valid |-> FALSE,
                                message |-> "Max positions reached"] }
                        ELSE { IF m.exc # ""
                               THEN [exc |-> m.exc, valid |-> FALSE, message |-> ""]
                               ELSE IF shares > m.value
                               THEN [exc |-> "", valid |-> FALSE,
                                     message |-> "Can only afford"]
                               ELSE [exc |-> "", valid |-> TRUE, message |-> "OK"]
                               : m \in get_max_shares(p, symbol, price, None) }
                        : total_value \in buy_total_values(p) }
        ELSE IF action = "SELL"
        THEN IF symbol \notin DOMAIN p.holdings
             THEN { [exc |-> "", valid |-> FALSE, message |-> "Don't own"] }
             ELSE IF shares > p.holdings[symbol].shares
             THEN { [exc |-> "", valid |-> FALSE, message |-> "Only own"] }
             ELSE { [exc |-> "", valid |-> TRUE, message |-> "OK"] }
        ELSE { [exc |-> "", valid |-> TRUE, message |-> "OK"] }

\* where a trading cycle stands: the Portfolio object, _daily_trades, whether
\* the file was saved, the trades executed, the exception that ended it ("" if none)
Cycle(p, daily, saved, executed, exc) ==
    [p |-> p, daily |-> daily, saved |-> saved, executed |-> executed, exc |-> exc]

\* execute_validated_trade on the cycle c; lookup is what get_current_price
\* returns to execute_trade
execute_validated_trade(trade, c, lookup) ==
    LET symbol == upper(trade.symbol)
        action == upper(trade.action)
        shares == trade.shares
    IN  { IF o.result.kind = "exception"
          THEN Cycle(o.p, c.daily, c.saved, c.executed, o.result.message.text)
          ELSE IF o.result.success
          THEN Cycle(o.p,
                     [c.daily EXCEPT !.count = @ + 1,
                                     !.buys = IF action = "BUY" THEN @ + 1 ELSE @],
                     TRUE, c.executed + 1, "")
          ELSE Cycle(o.p, c.daily, c.saved \/ o.saved, c.executed, "")
          : o \in execute_trade(c.p, action, symbol, shares, None, lookup) }

RECURSIVE forced_sells(_, _, _, _)
\* the stop-loss sells as they would be if the pass ended with its first sale
forced_sells_ends_after_a_sale(c, syms, market_data, lookup) ==
    IF syms = {} \/ c.exc # "" THEN { c }
    ELSE LET symbol  == CHOOSE x \in syms : TRUE
             holding == c.p.holdings[symbol]
         IN  IF symbol \notin DOMAIN market_data
             THEN forced_sells(c, syms \ {symbol}, market_data, lookup)
             ELSE LET current_price == market_data[symbol].price IN
             IF holding.avg_price = 0
             THEN { [c EXCEPT !.exc = "ZeroDivisionError"] }
             ELSE IF (current_price - holding.avg_price) * 100
                       < -GUARDRAILS.max_single_loss_pct * holding.avg_price
             THEN UNION {
                    forced_sells(
                      IF o.result.kind = "exception"
                      THEN Cycle(o.p, c.daily, c.saved, c.executed,
                                 o.result.message.text)
                      ELSE IF o.result.success
                      THEN Cycle(o.p, [c.daily EXCEPT !.count = @ + 1], TRUE,
                                 c.executed + 1, "")
                      ELSE Cycle(o.p, c.daily, c.saved \/ o.saved, c.executed, ""),
                      IF o.result.kind # "exception" /\ o.result.success
                      THEN {} ELSE syms \ {symbol},
                      market_data, lookup)
                    : o \in execute_trade(c.p, "SELL", symbol, holding.shares,
                                           None, lookup) }
             ELSE forced_sells(c, syms \ {symbol}, market_data, lookup)

\* run_trading_cycle, lines 413-429: the stop-loss sells over the holdings the
\* cycle loaded, for the symbols syms still to be visited
forced_sells(c, syms, market_data, lookup) ==
    IF syms = {} \/ c.exc # "" THEN { c }
    ELSE LET symbol  == CHOOSE x \in syms : TRUE
             holding == c.p.holdings[symbol]
         IN  IF symbol \notin DOMAIN market_data
             THEN forced_sells(c, syms \ {symbol}, market_data, lookup)
             ELSE LET current_price == market_data[symbol].price IN
             IF holding.avg_price = 0
             THEN { [c EXCEPT !.exc = "ZeroDivisionError"] }
             ELSE IF (current_price - holding.avg_price) * 100
                       < -GUARDRAILS.max_single_loss_pct * holding.avg_price
             THEN UNION {
                    forced_sells(
                      IF o.result.kind = "exception"
                      THEN Cycle(o.p, c.daily, c.saved, c.executed,
                                 o.result.message.text)
                      ELSE IF o.result.success
                      THEN Cycle(o.p, [c.daily EXCEPT !.count = @ + 1], TRUE,
                                 c.executed + 1, "")
                      ELSE Cycle(o.p, c.daily, c.saved \/ o.saved, c.executed, ""),
                      syms \ {symbol}, market_data, lookup)
                    : o \in execute_trade(c.p, "SELL", symbol, holding.shares,
                                           None, lookup) }
             ELSE forced_sells(c, syms \ {symbol}, market_data, lookup)

\* run_trading_cycle, lines 439-450: the trades of the response, in order
RECURSIVE suggested_trades(_, _, _, _)
suggested_trades(c, trades, market_data, lookup) ==
    IF trades = << >> \/ c.exc # "" THEN { c }
    ELSE UNION {
           IF v.exc # "" THEN { [c EXCEPT !.exc = v.exc] }
           ELSE IF ~v.valid
           THEN suggested_trades(c, Tail(trades), market_data, lookup)
           ELSE UNION { suggested_trades(c2, Tail(trades), market_data, lookup)
                        : c2 \in execute_validated_trade(Head(trades), c, lookup) }
           : v \in validate_trade(Head(trades), c.p, market_data, c.daily) }

\* run_trading_cycle with the internet reachable: today and now are the date
\* and time of the run, market_data what get_market_snapshot returns, trades
\* the trades of the model's response (empty when there is none), lookup what
\* get_current_price returns to the executions of the cycle
run_trading_cycle(daily, file, now, today, market_data, lookup, trades) ==
    LET d == reset_daily_trades_if_needed(daily, today)
        c == Cycle(NewPortfolio(file, now), d, FALSE, 0, "")
    IN  IF DOMAIN market_data = {} THEN { c }
        ELSE UNION { suggested_trades(c1, trades, market_data, lookup)
                     : c1 \in forced_sells(c, DOMAIN c.p.holdings, market_data, lookup) }

(* --------------------- market_data.py, refresh_data.py ------------------ *)
\* INDICATORS of config.py
INDICATORS == [sma_periods |-> <<10, 20, 50>>, rsi_period |-> 14, atr_period |-> 14]

\* SCREENING of config.py, prices and the ATR in cents
SCREENING == [min_atr |-> 100, min_avg_volume |-> 500000,
              max_price |-> 50000, min_price |-> 100]

\* a float: a number (an exact rational here), inf or NaN.  The sign of an
\* infinity is left out: the one place that produces one maps both to 100.
Float(r) == [kind |-> "num", value |-> r]
NaN      == [kind |-> "nan", value |-> <<0, 1>>]
Inf      == [kind |-> "inf", value |-> <<0, 1>>]

\* a / b on pandas Series values: division by zero raises nothing
FloatDiv(a, b) ==
    IF a.kind # "num" \/ b.kind # "num" THEN NaN
    ELSE IF b.value[1] = 0
         THEN IF a.value[1] = 0 THEN NaN ELSE Inf
         ELSE Float(RatDiv(a.value, b.value))

RECURSIVE Sum(_, _, _)
Sum(s, lo, hi) == IF lo > hi THEN 0 ELSE s[lo] + Sum(s, lo + 1, hi)

\* s[-n:] of a list or Series
LastN(s, n) == SubSeq(s, max(1, Len(s) - n + 1), Len(s))

\* Series.rolling(window=period).mean().iloc[-1]
rolling_mean(s, period) ==
    IF Len(s) < period THEN NaN
    ELSE Float(Rat(Sum(s, Len(s) - period + 1, Len(s)), period))

\* Close.diff() followed by where(delta > 0, 0) and -where(delta < 0, 0): the
\* first row, whose difference is NaN, becomes 0 in both
Gains(closes) ==
    [i \in 1..Len(closes) |-> IF i = 1 THEN 0 ELSE max(closes[i] - closes[i - 1], 0)]
Losses(closes) ==
    [i \in 1..Len(closes) |-> IF i = 1 THEN 0 ELSE max(closes[i - 1] - closes[i], 0)]

\* calculate_sma(data, period).iloc[-1]
calculate_sma(closes, period) == rolling_mean(closes, period)

\* calculate_rsi(data, period).iloc[-1]
calculate_rsi(closes, period) ==
    LET gain == rolling_mean(Gains(closes), period)
        loss == rolling_mean(Losses(closes), period)
        rs   == FloatDiv(gain, loss)
    IN  CASE rs.kind = "nan" -> NaN
          [] rs.kind = "inf" -> Float(<<100, 1>>)       \* 100 - 100 / inf
          [] OTHER ->
               Float(RatSub(<<100, 1>>,
                            RatDiv(<<100, 1>>, RatAdd(<<1, 1>>, rs.value))))

\* a DataFrame of daily bars, by column; every bar has its high and its low
\* at the distance r from its close, and the volume v
Frame(closes, r, v) ==
    [Close  |-> closes,
     High   |-> [i \in DOMAIN closes |-> closes[i] + r],
     Low    |-> [i \in DOMAIN closes |-> closes[i] - r],
     Volume |-> [i \in DOMAIN closes |-> v]]

\* no chart, or a chart without rows
NoFrame == Frame(<< >>, 0, 0)

\* calculate_atr(data, period).iloc[-1]: close.shift() is NaN in the first row
\* of the history, and max(axis=1) skips it there
calculate_atr(data, period) ==
    LET tr == [i \in DOMAIN data.Close |->
                 LET tr1 == data.High[i] - data.Low[i] IN
                 IF i = 1 THEN tr1
                 ELSE max(tr1, max(Abs(data.High[i] - data.Close[i - 1]),
                                   Abs(data.Low[i] - data.Close[i - 1])))]
    IN  rolling_mean(tr, period)

\* round(x, 2) of a float: NaN stays NaN, a number goes to a nearest hundredth
round2(x) ==
    IF x.kind # "num" THEN {x}
    ELSE { Float(Rat(h, 100)) : h \in RoundCents(RatMul(x.value, <<100, 1>>)) }

\* round(((current_price - past) / past) * 100, 2), in hundredths of a percent
Change(current_price, past) ==
    RoundCents(RatMul(Rat((current_price - past) * 100, past), <<100, 1>>))

\* a float above a float
Above(price, sma) == sma.kind = "num" /\ price * sma.value[2] > sma.value[1]

\* round(x, 2) of an average of prices, in cents
RoundSma(sma) == IF sma.kind = "num" THEN RoundCents(sma.value) ELSE {None}

\* the records get_stock_analysis and fetch_stock_data return; the average
\* volume is under "volume" in the latter, and is read from there
Analysis(symbol, price, daily, weekly, monthly, s10, s20, s50, rsi, atr, volume, a10, a20, a50) ==
    [symbol |-> symbol, price |-> price, daily_change |-> daily,
     weekly_change |-> weekly, monthly_change |-> monthly,
     sma_10 |-> s10, sma_20 |-> s20, sma_50 |-> s50, rsi |-> rsi,
     atr |-> atr, avg_volume |-> volume,
     above_sma_10 |-> a10, above_sma_20 |-> a20, above_sma_50 |-> a50]

\* every record with the indicators of the closes and the price: one for each
\* way the roundings can fall
Records(symbol, closes, current_price, rsi, atr, avg_volume, sma_10, sma_20, sma_50) ==
    LET n == Len(closes) IN
    { Analysis(symbol, current_price, daily, weekly, monthly, s10, s20, s50, r,
               a, int(avg_volume),
               Above(current_price, sma_10), Above(current_price, sma_20),
               Above(current_price, sma_50)) :
        daily   \in Change(current_price, closes[n - 1]),
        weekly  \in Change(current_price, closes[n - 4]),
        monthly \in Change(current_price, closes[n - 19]),
        s10 \in RoundSma(sma_10), s20 \in RoundSma(sma_20), s50 \in RoundSma(sma_50),
        r \in round2(rsi), a \in RoundSma(atr) }

\* _generate_sample_history(symbol, days): the closes of a random walk that
\* starts at the sample price, 100.00 for the symbols of STOCK_UNIVERSE other
\* than NVDA and META; highs and lows within 2% of the close, volumes from
\* 5 to 50 million
_generate_sample_history(symbol, days) ==
    { Frame([i \in 1..days |->
                IF i <= days - Len(t) THEN 10000 ELSE t[i - (days - Len(t))]],
            100, 5000000) :
        t \in UNION { [1..k -> ClosePrices] : k \in 1..MaxTail } }

\* get_historical_data(symbol): live says whether _check_live_data() found
\* live data, chart is the frame _parse_chart_to_dataframe makes of the fetched
\* chart, NoFrame when there is no chart or no row
get_historical_data(symbol, live, chart) ==
    IF ~live THEN _generate_sample_history(symbol, 90)
    ELSE IF chart # NoFrame /\ Len(chart.Close) >= 50 THEN {chart}
    ELSE _generate_sample_history(symbol, 90)

\* refresh_data.fetch_stock_data(symbol): chart holds the close, high, low and
\* volume lists of the response (none of them with a None entry), NoFrame when
\* the request failed; meta_price is meta.regularMarketPrice.  The result is {}
\* for None.
fetch_stock_data(symbol, chart, meta_price) ==
    LET closes == chart.Close
        highs  == chart.High
        lows   == chart.Low
        volumes == chart.Volume
    IN
    IF closes = << >> \/ Len(closes) < 50 THEN {}
    ELSE
      LET n == Len(closes)
          current_price == IF meta_price = None THEN closes[n] ELSE meta_price
          sma_10   == Float(Rat(Sum(LastN(closes, 10), 1, 10), 10))
          sma_20   == Float(Rat(Sum(LastN(closes, 20), 1, 20), 20))
          sma_50   == Float(Rat(Sum(LastN(closes, 50), 1, 50), 50))
          deltas   == [i \in 1..(n - 1) |-> closes[i + 1] - closes[i]]
          last14   == LastN(deltas, 14)
          gains    == [i \in 1..Len(last14) |-> IF last14[i] > 0 THEN last14[i] ELSE 0]
          losses   == [i \in 1..Len(last14) |-> IF last14[i] < 0 THEN -last14[i] ELSE 0]
          avg_gain == Rat(Sum(gains, 1, Len(gains)), 14)
          avg_loss == Rat(Sum(losses, 1, Len(losses)), 14)
          rsi      == IF avg_loss[1] = 0 THEN Float(<<100, 1>>)
                      ELSE LET rs == RatDiv(avg_gain, avg_loss) IN
                           Float(RatSub(<<100, 1>>,
                                        RatDiv(<<100, 1>>, RatAdd(<<1, 1>>, rs))))
          \* for i in range(-14, 0), the list index i as the position n + 1 + i
          trs      == [j \in 1..14 |->
                         LET i == n - 14 + j IN
                         IF j = 1 THEN highs[i] - lows[i]
                         ELSE max(highs[i] - lows[i],
                                  max(Abs(highs[i] - closes[i - 1]),
                                      Abs(lows[i] - closes[i - 1])))]
          atr      == Float(Rat(Sum(trs, 1, 14), 14))
          avg_volume == Rat(Sum(LastN(volumes, 20), 1, min(20, Len(volumes))),
                            min(20, Len(volumes)))
      IN  Records(symbol, closes, current_price, rsi, atr, avg_volume,
                  sma_10, sma_20, sma_50)

\* get_stock_analysis(symbol): gist is what _get_gist_stock_data(symbol)
\* returned, {} for None and else {the record of the symbol}.  The result is a
\* set of possible outcomes, each {} for None or {the record returned}.
get_stock_analysis(symbol, gist, live, chart) ==
    IF gist # {}
    THEN { {[g EXCEPT !.symbol = symbol]} : g \in gist }
    ELSE
      UNION {
        IF hist = NoFrame \/ Len(hist.Close) < 50 THEN {{}}
        ELSE { {r} : r \in Records(symbol, hist.Close, hist.Close[Len(hist.Close)],
                                   calculate_rsi(hist.Close, INDICATORS.rsi_period),
                                   calculate_atr(hist, INDICATORS.atr_period),
                                   Rat(Sum(LastN(hist.Volume, 20), 1, 20), 20),
                                   calculate_sma(hist.Close, 10),
                                   calculate_sma(hist.Close, 20),
                                   calculate_sma(hist.Close, 50)) } :
          hist \in get_historical_data(symbol, live, chart) }

\* YAHOO_ENDPOINTS, by position in the list
YAHOO_ENDPOINTS == <<1, 2>>
\* the backoff after a 429, in seconds
Backoff == 300

\* what a call of _fetch_yahoo_chart leaves and gives: the two globals, the
\* endpoints it sent a request to, and "chart" or "None" for its result
Fetched(limited, until, requests, result) ==
    [_rate_limited |-> limited, _rate_limit_until |-> until,
     requests |-> requests, result |-> result]

\* _fetch_yahoo_chart as it would be if a 429 ended the call
RECURSIVE try_endpoints(_, _, _, _, _, _)
try_endpoints_stops_at_429(limited, until, now, responses, k, requests) ==
    IF k > Len(YAHOO_ENDPOINTS) THEN Fetched(limited, until, requests, "None")
    ELSE LET resp == responses[k]
             sent == Append(requests, YAHOO_ENDPOINTS[k])
         IN  IF resp = "429"
             THEN Fetched(TRUE, now + Backoff, sent, "None")
             ELSE IF resp = "chart" THEN Fetched(FALSE, until, sent, "chart")
             ELSE try_endpoints(limited, until, now, responses, k + 1, sent)

\* the loop `for endpoint in YAHOO_ENDPOINTS` of _fetch_yahoo_chart, from the
\* k-th endpoint on; responses[k] is what that endpoint answers if asked
try_endpoints(limited, until, now, responses, k, requests) ==
    IF k > Len(YAHOO_ENDPOINTS) THEN Fetched(limited, until, requests, "None")
    ELSE LET resp == responses[k]
             sent == Append(requests, YAHOO_ENDPOINTS[k])
         IN  IF resp = "429"
             THEN try_endpoints(TRUE, now + Backoff, now, responses, k + 1, sent)
             ELSE IF resp = "chart" THEN Fetched(FALSE, until, sent, "chart")
             ELSE try_endpoints(limited, until, now, responses, k + 1, sent)

\* _fetch_yahoo_chart(symbol, range_str, interval), called at time now with the
\* globals limited and until.  The pause of REQUEST_DELAY (half a second)
\* between requests is shorter than the unit of the clock and is left out.
_fetch_yahoo_chart(limited, until, now, responses) ==
    IF limited /\ now < until THEN Fetched(limited, until, << >>, "None")
    ELSE try_endpoints(FALSE, until, now, responses, 1, << >>)

\* x < y of two numbers, False when x is NaN
Below(x, y) == x # None /\ x < y

\* screen_stocks with the atr floor taken as exclusive
RECURSIVE screen_stocks(_, _)
screen_stocks_drops_the_atr_floor(symbols, analysis) ==
    IF symbols = << >> THEN << >>
    ELSE
      LET found == analysis[Head(symbols)]
          rest  == screen_stocks(Tail(symbols), analysis)
      IN
      IF found = {} THEN rest
      ELSE
        LET a == CHOOSE x \in found : TRUE IN
        IF ~Below(SCREENING.min_atr, a.atr) THEN rest
        ELSE IF Below(a.avg_volume, SCREENING.min_avg_volume) THEN rest
        ELSE IF Below(SCREENING.max_price, a.price) THEN rest
        ELSE IF Below(a.price, SCREENING.min_price) THEN rest
        ELSE <<a>> \o rest

\* screen_stocks(symbols): analysis[symbol] is what get_stock_analysis(symbol)
\* returns in this call, {} for None and else {the record}.  The list
\* `screened` starts empty in every call.
screen_stocks(symbols, analysis) ==
    IF symbols = << >> THEN << >>
    ELSE
      LET found == analysis[Head(symbols)]
          rest  == screen_stocks(Tail(symbols), analysis)
      IN
      IF found = {} THEN rest
      ELSE
        LET a == CHOOSE x \in found : TRUE IN
        IF Below(a.atr, SCREENING.min_atr) THEN rest
        ELSE IF Below(a.avg_volume, SCREENING.min_avg_volume) THEN rest
        ELSE IF Below(SCREENING.max_price, a.price) THEN rest
        ELSE IF Below(a.price, SCREENING.min_price) THEN rest
        ELSE <<a>> \o rest

(* ----------------------------- the system ------------------------------ *)
HeldSymbols == {upper(s) : s \in SymbolInputs} \ {""}

\* the value of `last` for a call that returns nothing
NoResult ==
    [kind |-> "None", success |-> FALSE, message |-> Text(""),
     symbol |-> "", action |-> "", shares |-> 0, price |-> 0, total |-> 0]

Call(op, result, saved) == [op |-> op, result |-> result, saved |-> saved]

\* the value of `last` for a call that returns the integer n
IntResult(n) == [NoResult EXCEPT !.kind = "int", !.shares = n]

NoLots == [pure |-> TRUE, buys |-> <<>>]

\* lots after add_holding(symbol, shares, price) went through
LotsAdd(l, symbol, shares, price) ==
    [l EXCEPT ![symbol] =
        IF l[symbol].pure
        THEN [pure |-> TRUE, buys |-> Append(l[symbol].buys, <<shares, price>>)]
        ELSE l[symbol]]

\* lots after remove_holding(symbol, ...) left the holdings h
LotsRemove(l, symbol, h) ==
    [l EXCEPT ![symbol] =
        IF symbol \in DOMAIN h THEN [pure |-> FALSE, buys |-> <<>>] ELSE NoLots]

\* the bounds of the model, on the state a call leaves
WithinBounds(p) ==
    /\ Len(p.transactions) <= MaxTx
    /\ \A s \in DOMAIN p.holdings :
         /\ p.holdings[s].shares <= MaxShares
         /\ p.holdings[s].cost_basis[2] <= MaxDen

\* the first Portfolio() of a fresh installation: no file yet
Init ==
    /\ cash = STARTING_CASH
    /\ holdings = << >>
    /\ transactions = << >>
    /\ start_date = "t0"
    /\ day = 1
    /\ persisted = {}
    /\ last = Call("init", NoResult, FALSE)
    /\ lots = [s \in HeldSymbols |-> NoLots]
    /\ pc = "idle"
    /\ pre = {}
    /\ other = Fresh("t0")
    /\ daily_trades = NoDailyTrades
    /\ _rate_limited = FALSE
    /\ _rate_limit_until = 0
    /\ time = 0

\* a caller runs execute_trade(portfolio, action, symbol, shares): the callers
\* (main.py, app.py, claude_trader.py) pass no price, so it is looked up
ExecuteTrade(shareInputs) ==
    \E action \in ActionInputs, symbol \in SymbolInputs, shares \in shareInputs,
       lookup \in Prices \cup {None} :
      \E o \in execute_trade(Portfolio, action, symbol, shares, None, lookup) :
        /\ WithinBounds(o.p)
        /\ cash' = o.p.cash
        /\ holdings' = o.p.holdings
        /\ transactions' = o.p.transactions
        /\ start_date' = o.p.start_date
        /\ day' = o.p.day
        /\ persisted' = IF o.saved THEN save(o.p) ELSE persisted
        /\ UNCHANGED <<pc, pre, other, daily_trades, yahoo>>
        /\ last' = Call("execute_trade", o.result, o.saved)
        /\ lots' = IF ~o.result.success THEN lots
                   ELSE IF upper(action) = "BUY"
                   THEN LotsAdd(lots, upper(symbol), shares, o.result.price)
                   ELSE LotsRemove(lots, upper(symbol), o.p.holdings)

\* a caller runs portfolio.add_holding(symbol, shares, price)
AddHolding(shareInputs, priceInputs) ==
    \E symbol \in HeldSymbols, shares \in shareInputs, price \in priceInputs :
      \E h \in add_holding(holdings, symbol, shares, price) :
        /\ WithinBounds([Portfolio EXCEPT !.holdings = h])
        /\ holdings' = h
        /\ last' = Call("add_holding", NoResult, FALSE)
        /\ lots' = LotsAdd(lots, symbol, shares, price)
        /\ UNCHANGED <<cash, transactions, start_date, day, persisted, pc, pre, other, daily_trades, yahoo>>

\* a caller runs portfolio.remove_holding(symbol, shares, price)
RemoveHolding ==
    \E symbol \in HeldSymbols, shares \in PosShares, price \in Prices :
      LET r == remove_holding(holdings, symbol, shares, price) IN
        /\ WithinBounds([Portfolio EXCEPT !.holdings = r.holdings])
        /\ holdings' = r.holdings
        /\ last' = Call("remove_holding",
                        IF r.exc = "" THEN NoResult
                        ELSE [Raised(r.exc) EXCEPT !.message = Text(r.message)],
                        FALSE)
        /\ lots' = IF r.exc = "" THEN LotsRemove(lots, symbol, r.holdings) ELSE lots
        /\ UNCHANGED <<cash, transactions, start_date, day, persisted, pc, pre, other, daily_trades, yahoo>>

\* a caller runs get_max_shares(portfolio, symbol, price)
GetMaxShares ==
    \E symbol \in HeldSymbols, price \in Prices \cup {None} :
     \E lookup \in IF price = None THEN Prices \cup {None} ELSE {None} :
      \E r \in get_max_shares(Portfolio, symbol, price, lookup) :
        /\ last' = Call("get_max_shares",
                        IF r.exc = "" THEN IntResult(r.value) ELSE Raised(r.exc), FALSE)
        /\ UNCHANGED <<cash, holdings, transactions, start_date, day, persisted,
                       lots, pc, pre, other, daily_trades, yahoo>>

\* a caller runs portfolio.advance_day()
AdvanceDay ==
    /\ day < MaxDay
    /\ LET q == advance_day(Portfolio) IN
         /\ cash' = q.cash
         /\ holdings' = q.holdings
         /\ transactions' = q.transactions
         /\ start_date' = q.start_date
         /\ day' = q.day
         /\ persisted' = save(q)
    /\ last' = Call("advance_day", NoResult, TRUE)
    /\ UNCHANGED <<lots, pc, pre, other, daily_trades, yahoo>>

\* a caller runs portfolio.reset()
Reset ==
    \E now \in Timestamps :
      LET q == reset(Portfolio, now) IN
        /\ cash' = q.cash
        /\ holdings' = q.holdings
        /\ transactions' = q.transactions
        /\ start_date' = q.start_date
        /\ day' = q.day
        /\ persisted' = save(q)
        /\ last' = Call("reset", NoResult, TRUE)
        /\ lots' = [s \in HeldSymbols |-> NoLots]
        /\ UNCHANGED <<pc, pre, other, daily_trades, yahoo>>

\* trades with any share count a caller can pass, on a ledger whose holdings
\* were opened by add_holding
Next ==
    \/ ExecuteTrade(AllShares)
    \/ AddHolding(SeedShares, SeedPrices)

Spec == Init /\ [][Next]_vars

\* a trading session over several days, with strictly positive share counts
PosNext ==
    \/ ExecuteTrade(PosShares)
    \/ AddHolding(SeedShares, SeedPrices)
    \/ AdvanceDay
    \/ Reset

PosSpec == Init /\ [][PosNext]_vars

\* the ledger alone: any interleaving of add_holding and remove_holding
LedgerNext ==
    \/ AddHolding(PosShares, Prices)
    \/ RemoveHolding

LedgerSpec == Init /\ [][LedgerNext]_vars

(* ---- a trade step by step: the save at its end, and the process stopping ---- *)
\* lots of a ledger that was read from the file
LoadedLots(h) ==
    [s \in HeldSymbols |->
        IF s \in DOMAIN h THEN [pure |-> FALSE, buys |-> << >>] ELSE NoLots]

\* execute_trade up to its portfolio.save(): validation, cash, holding and
\* transaction are done in memory; the file is as it was
TradeMutate(actionInputs, lookups) ==
    /\ pc = "idle"
    /\ \E action \in actionInputs, symbol \in SymbolInputs, shares \in PosShares,
          lookup \in lookups :
        \E o \in execute_trade(Portfolio, action, symbol, shares, None, lookup) :
          /\ WithinBounds(o.p)
          /\ cash' = o.p.cash
          /\ holdings' = o.p.holdings
          /\ transactions' = o.p.transactions
          /\ start_date' = o.p.start_date
          /\ day' = o.p.day
          /\ pc' = IF o.saved THEN "save" ELSE "idle"
          /\ pre' = IF o.saved THEN persisted ELSE pre
          /\ last' = Call("execute_trade", o.result, FALSE)
          /\ lots' = IF ~o.result.success THEN lots
                     ELSE LotsRemove(lots, upper(symbol), o.p.holdings)
          /\ UNCHANGED <<persisted, other, daily_trades, yahoo>>

\* advance_day up to its self.save()
AdvanceDayMutate ==
    /\ pc = "idle"
    /\ day < MaxDay
    /\ day' = advance_day(Portfolio).day
    /\ pc' = "save"
    /\ pre' = persisted
    /\ last' = Call("advance_day", NoResult, FALSE)
    /\ UNCHANGED <<cash, holdings, transactions, start_date, persisted, lots, other, daily_trades, yahoo>>

\* save: open(PORTFOLIO_FILE, 'w') creates or empties the file
SaveOpen ==
    /\ pc = "save"
    /\ persisted' = Truncated
    /\ pc' = "dump"
    /\ UNCHANGED <<cash, holdings, transactions, start_date, day, last, lots, pre, other, daily_trades, yahoo>>

\* save: json.dump writes the document through the file's buffer; a flush
\* before the end puts the members written so far in the file
SaveWrite ==
    /\ pc = "dump"
    /\ persisted = Truncated
    /\ \E k \in 1 .. (Len(Document(Portfolio)) - 1) :
         persisted' = { File(SubSeq(Document(Portfolio), 1, k), FALSE) }
    /\ UNCHANGED <<cash, holdings, transactions, start_date, day, last, lots,
                   pc, pre, other, daily_trades, yahoo>>

\* save: the with block ends, the whole document is in the file; the call returns
SaveClose ==
    /\ pc = "dump"
    /\ persisted' = save(Portfolio)
    /\ pc' = "idle"
    /\ last' = [last EXCEPT !.saved = TRUE]
    /\ UNCHANGED <<cash, holdings, transactions, start_date, day, lots, pre, other, daily_trades, yahoo>>

\* the process stops inside a save; its Portfolio object is what it was then
Crash ==
    /\ pc \in {"save", "dump"}
    /\ pc' = "stopped"
    /\ UNCHANGED <<cash, holdings, transactions, start_date, day, persisted, last,
                   lots, pre, other, daily_trades, yahoo>>

\* the next process constructs Portfolio(), which loads the file
Restart ==
    /\ pc = "stopped"
    /\ \E now \in Timestamps :
         LET q == NewPortfolio(persisted, now) IN
           /\ cash' = q.cash
           /\ holdings' = q.holdings
           /\ transactions' = q.transactions
           /\ start_date' = q.start_date
           /\ day' = q.day
           /\ lots' = LoadedLots(q.holdings)
    /\ pc' = "idle"
    /\ last' = Call("init", NoResult, FALSE)
    /\ UNCHANGED <<persisted, pre, other, daily_trades, yahoo>>

\* sell orders at the quoted price, saved step by step, with stops and restarts
CrashNext ==
    \/ (pc = "idle" /\ AddHolding(SeedShares, SeedPrices))
    \/ TradeMutate({"SELL"}, SeedPrices)
    \/ AdvanceDayMutate
    \/ SaveOpen
    \/ SaveWrite
    \/ SaveClose
    \/ Crash
    \/ Restart

CrashSpec == Init /\ [][CrashNext]_vars

(* ---- two processes on one file: the web endpoint and the auto-trader ---- *)
\* a caller opens a holding and saves: Portfolio(), add_holding, save
OpenHolding(symbols) ==
    \E now \in Timestamps, symbol \in symbols, shares \in SeedShares,
       price \in SeedPrices :
      LET p == NewPortfolio(persisted, now) IN
        \E h \in add_holding(p.holdings, symbol, shares, price) :
          LET q == [p EXCEPT !.holdings = h] IN
            /\ WithinBounds(q)
            /\ cash' = q.cash
            /\ holdings' = q.holdings
            /\ transactions' = q.transactions
            /\ start_date' = q.start_date
            /\ day' = q.day
            /\ persisted' = save(q)
            /\ last' = Call("add_holding", NoResult, TRUE)
            /\ lots' = LoadedLots(q.holdings)
            /\ UNCHANGED <<pc, pre, other, daily_trades, yahoo>>

\* app.py api_trade: get_portfolio() loads the file, execute_trade runs on the
\* object just loaded (the endpoint passes shares > 0 and no price)
ApiTrade ==
    \E now \in Timestamps, action \in ActionInputs, symbol \in SymbolInputs,
       shares \in PosShares, lookup \in Prices \cup {None} :
      \E o \in execute_trade(NewPortfolio(persisted, now), action, symbol, shares,
                              None, lookup) :
        /\ WithinBounds(o.p)
        /\ cash' = o.p.cash
        /\ holdings' = o.p.holdings
        /\ transactions' = o.p.transactions
        /\ start_date' = o.p.start_date
        /\ day' = o.p.day
        /\ persisted' = IF o.saved THEN save(o.p) ELSE persisted
        /\ last' = Call("execute_trade", o.result, o.saved)
        /\ lots' = LoadedLots(o.p.holdings)
        /\ UNCHANGED <<pc, pre, other, daily_trades, yahoo>>

\* claude_trader.py run_trading_cycle: the cycle starts, Portfolio() loads the file
CycleLoad ==
    /\ \E now \in Timestamps : other' = NewPortfolio(persisted, now)
    /\ last' = Call("init", NoResult, FALSE)
    /\ UNCHANGED <<cash, holdings, transactions, start_date, day, persisted,
                   lots, pc, pre, daily_trades, yahoo>>

\* run_trading_cycle: a stop-loss sell or a suggested trade, by execute_trade on
\* the object the cycle loaded
CycleTrade ==
    \E action \in ActionInputs, symbol \in SymbolInputs, shares \in PosShares,
       lookup \in Prices \cup {None} :
      \E o \in execute_trade(other, action, symbol, shares, None, lookup) :
        /\ WithinBounds(o.p)
        /\ other' = o.p
        /\ persisted' = IF o.saved THEN save(o.p) ELSE persisted
        /\ last' = Call("execute_trade", o.result, o.saved)
        /\ UNCHANGED <<cash, holdings, transactions, start_date, day, lots, pc, pre, daily_trades, yahoo>>

ConcNext ==
    \/ OpenHolding(HeldSymbols)
    \/ ApiTrade
    \/ CycleLoad
    \/ CycleTrade

ConcSpec == Init /\ [][ConcNext]_vars

(* ------------------ the auto-trader: claude_trader.py ------------------ *)
\* what get_market_snapshot can return: nothing, or a record for every symbol
\* dealt in, all quoted at the same price
MarketSnapshots ==
    { << >> } \cup { [y \in TraderSymbols |-> [price |-> q]] : q \in SnapshotPrices }

\* the trades of a response
RECURSIVE Responses(_)
Responses(n) ==
    IF n = 0 THEN { << >> }
    ELSE Responses(n - 1)
         \cup { <<t>> \o r : t \in TradeSuggestions,
                              r \in { x \in Responses(n - 1) : Len(x) = n - 1 } }

\* the times at which Portfolio() can be constructed, as far as they matter: a
\* file that has a start_date gives it to the object
StartDates(file) ==
    IF \E f \in file : f.closed /\ Has(f.members, "start_date")
    THEN {"t0"} ELSE Timestamps

\* run_trading_cycle in a process whose _daily_trades is daily
TradingCycle(op, daily) ==
    \E now \in StartDates(persisted), today \in Dates,
       market_data \in MarketSnapshots, lookup \in Prices \cup {None},
       trades \in Responses(MaxResponse) :
      \E c \in run_trading_cycle(daily, persisted, now, today, market_data,
                                  lookup, trades) :
        /\ WithinBounds(c.p)
        /\ cash' = c.p.cash
        /\ holdings' = c.p.holdings
        /\ transactions' = c.p.transactions
        /\ start_date' = c.p.start_date
        /\ day' = c.p.day
        /\ persisted' = IF c.saved THEN save(c.p) ELSE persisted
        /\ daily_trades' = c.daily
        /\ UNCHANGED yahoo
        /\ last' = Call(op, IF c.exc = "" THEN IntResult(c.executed) ELSE Raised(c.exc),
                        c.saved)
        /\ lots' = LoadedLots(c.p.holdings)
        /\ UNCHANGED <<pc, pre, other>>

\* is_market_hours was called at the time clock and returned False: nothing is run
OutsideMarketHours(op, clock) ==
    /\ last' = [op |-> op, now |-> clock, in_hours |-> FALSE, result |-> NoResult,
                saved |-> FALSE]
    /\ UNCHANGED <<cash, holdings, transactions, start_date, day, persisted, lots,
                   pc, pre, other, daily_trades, yahoo>>

\* is_market_hours was called at the time clock and returned True: a cycle is run
InsideMarketHours(op, clock, daily) ==
    \E now \in StartDates(persisted), today \in Dates,
       market_data \in MarketSnapshots, lookup \in Prices \cup {None},
       trades \in Responses(MaxResponse) :
      \E c \in run_trading_cycle(daily, persisted, now, today, market_data,
                                  lookup, trades) :
        /\ WithinBounds(c.p)
        /\ cash' = c.p.cash
        /\ holdings' = c.p.holdings
        /\ transactions' = c.p.transactions
        /\ start_date' = c.p.start_date
        /\ day' = c.p.day
        /\ persisted' = IF c.saved THEN save(c.p) ELSE persisted
        /\ daily_trades' = c.daily
        /\ UNCHANGED yahoo
        /\ last' = [op |-> op, now |-> clock, in_hours |-> TRUE,
                    result |-> IF c.exc = "" THEN IntResult(c.executed)
                               ELSE Raised(c.exc),
                    saved |-> c.saved]
        /\ lots' = LoadedLots(c.p.holdings)
        /\ UNCHANGED <<pc, pre, other>>

\* claude_trader.py --once --force: a new process runs one cycle
RunOnceForced == TradingCycle("main --once --force", NoDailyTrades)

\* claude_trader.py --once: a new process runs one cycle if is_market_hours()
RunOnce ==
    \E clock \in ClockInputs :
      IF is_market_hours(clock)
      THEN InsideMarketHours("main --once", clock, NoDailyTrades)
      ELSE OutsideMarketHours("main --once", clock)

\* claude_trader.py: one turn of the loop of run_continuous
RunContinuous ==
    \E clock \in ClockInputs :
      IF is_market_hours(clock)
      THEN InsideMarketHours("main", clock, daily_trades)
      ELSE OutsideMarketHours("main", clock)

\* the auto-trader on a file whose holdings were opened by add_holding
TraderNext ==
    \/ OpenHolding(TraderSymbols)
    \/ RunOnceForced
    \/ RunOnce
    \/ RunContinuous

TraderSpec == Init /\ [][TraderNext]_vars

\* forced cycles alone, on holdings opened beforehand
ForcedNext ==
    \/ OpenHolding(TraderSymbols)
    \/ RunOnceForced

ForcedSpec == Init /\ [][ForcedNext]_vars

\* sizing queries between the trades of a session
SizingNext ==
    \/ ExecuteTrade(PosShares)
    \/ AddHolding(SeedShares, SeedPrices)
    \/ GetMaxShares

SizingSpec == Init /\ [][SizingNext]_vars

\* the close series the data source may deliver
CloseSeries ==
    { head \o [i \in 1..n |-> 10000] \o tail :
        head \in {<< >>, <<10100>>}, n \in FlatLengths,
        tail \in UNION { [1..k -> ClosePrices] : k \in 0..MaxTail } }
    \cup { [i \in 1..50 |-> IF i <= 50 - k THEN 10000 ELSE 10100] : k \in StepBars }

\* the charts a request for three months of daily bars may return
Charts ==
    {NoFrame}
    \cup { Frame(s, r, BarVolume) :
             s \in { x \in CloseSeries :
                       x[1] = 10000 /\ Len(x) \in {Min(FlatLengths) + MaxTail, 50} },
             r \in BarRanges }

\* the entry of a symbol in a fresh gist: what refresh_data wrote for it
GistEntries ==
    {{}} \cup { {g} : g \in fetch_stock_data(
                              "PLTR", Frame([i \in 1..50 |-> 10000], 50, BarVolume), None) }

\* a caller computes the RSI of a history
CalculateRsi ==
    /\ \E closes \in CloseSeries :
         last' = [op |-> "calculate_rsi", closes |-> closes,
                  rsi |-> calculate_rsi(closes, INDICATORS.rsi_period)]
    /\ UNCHANGED <<cash, holdings, transactions, start_date, day, persisted,
                   lots, pc, pre, other, daily_trades, yahoo>>

\* the refresh job fetches one symbol
FetchStockData ==
    /\ \E chart \in {NoFrame} \cup { Frame(s, 50, BarVolume) : s \in CloseSeries },
          meta_price \in MetaPrices :
       \E result \in LET r == fetch_stock_data("PLTR", chart, meta_price)
                     IN  IF r = {} THEN {{}} ELSE { {x} : x \in r } :
         last' = [op |-> "fetch_stock_data", closes |-> chart.Close,
                  frame |-> chart, meta_price |-> meta_price, result |-> result]
    /\ UNCHANGED <<cash, holdings, transactions, start_date, day, persisted,
                   lots, pc, pre, other, daily_trades, yahoo>>

\* a caller asks for the analysis of one symbol
GetStockAnalysis ==
    /\ \E gist \in GistEntries, live \in BOOLEAN, chart \in Charts :
       \E result \in get_stock_analysis("PLTR", gist, live, chart) :
         last' = [op |-> "get_stock_analysis", gist |-> gist, live |-> live,
                  chart |-> chart.Close, frame |-> chart, result |-> result]
    /\ UNCHANGED <<cash, holdings, transactions, start_date, day, persisted,
                   lots, pc, pre, other, daily_trades, yahoo>>

\* the market data functions, called in any order
DataNext ==
    \/ CalculateRsi
    \/ FetchStockData
    \/ GetStockAnalysis

DataSpec == Init /\ [][DataNext]_vars

\* a caller (get_historical_data, get_current_price, _check_live_data) asks
\* for a chart; `last` keeps the globals and the time the call began with
FetchYahooChart ==
    /\ \E responses \in [1..Len(YAHOO_ENDPOINTS) -> Answers] :
         LET f == _fetch_yahoo_chart(_rate_limited, _rate_limit_until, time, responses) IN
           /\ _rate_limited' = f._rate_limited
           /\ _rate_limit_until' = f._rate_limit_until
           /\ last' = [op |-> "_fetch_yahoo_chart", limited |-> _rate_limited,
                       until |-> _rate_limit_until, at |-> time,
                       responses |-> responses, requests |-> f.requests,
                       result |-> f.result]
    /\ UNCHANGED <<cash, holdings, transactions, start_date, day, persisted,
                   lots, pc, pre, other, daily_trades, time>>

\* time passes between two calls
TimePasses ==
    /\ \E step \in TimeSteps :
         /\ time + step <= MaxTime
         /\ time' = time + step
    /\ UNCHANGED <<cash, holdings, transactions, start_date, day, persisted, last,
                   lots, pc, pre, other, daily_trades, _rate_limited, _rate_limit_until>>

\* reset_rate_limit(); the _live_data_available it also forgets is an input of
\* get_historical_data here
ResetRateLimit ==
    /\ _rate_limited' = FALSE
    /\ _rate_limit_until' = 0
    /\ last' = [op |-> "reset_rate_limit"]
    /\ UNCHANGED <<cash, holdings, transactions, start_date, day, persisted,
                   lots, pc, pre, other, daily_trades, time>>

\* chart requests over time
FetchNext ==
    \/ FetchYahooChart
    \/ TimePasses
    \/ ResetRateLimit

FetchSpec == Init /\ [][FetchNext]_vars

\* the charts of the screened symbols
ScreenCharts ==
    {NoFrame} \cup { Frame([i \in 1..50 |-> b[1]], b[2], b[3]) : b \in ScreenBars }

\* what get_stock_analysis may return for a screened symbol
ScreenAnalyses(symbol) ==
    UNION { get_stock_analysis(symbol, gist, TRUE, chart) :
              gist \in GistEntries, chart \in ScreenCharts }

\* a caller screens a list of symbols; `again` tells that the call before it
\* returned records
ScreenStocks ==
    /\ \E symbols \in ScreenSymbols :
       \E pltr \in ScreenAnalyses("PLTR"), sofi \in ScreenAnalyses("SOFI") :
         LET analysis == [sym \in {symbols[i] : i \in 1..Len(symbols)} |->
                            IF sym = "PLTR" THEN pltr ELSE sofi]
         IN
         last' = [op |-> "screen_stocks", symbols |-> symbols, analysis |-> analysis,
                  again |-> (last.op = "screen_stocks" /\ last.result # << >>),
                  result |-> screen_stocks(symbols, analysis)]
    /\ UNCHANGED <<cash, holdings, transactions, start_date, day, persisted,
                   lots, pc, pre, other, daily_trades, yahoo>>

\* screening calls, one after another
ScreenNext == ScreenStocks

ScreenSpec == Init /\ [][ScreenNext]_vars

\* the price maps of the callers of get_holdings_value
PriceMaps == UNION { [have -> ValuationPrices] : have \in SUBSET ValuationSymbols }

\* a caller runs portfolio.get_holdings_value(prices), with a price map or
\* with None, for which the prices are looked up
GetHoldingsValue ==
    /\ \E supplied \in {{}} \cup { {m} : m \in PriceMaps } :
       \E prices \in IF supplied = {} /\ DOMAIN holdings # {}
                     THEN get_current_prices(DOMAIN holdings)
                     ELSE IF supplied = {} THEN {<< >>} ELSE supplied :
       \E value \in get_holdings_value(Portfolio, prices) :
         last' = [op |-> "get_holdings_value", prices |-> supplied,
                  used |-> prices, result |-> value, saved |-> FALSE]
    /\ UNCHANGED <<cash, holdings, transactions, start_date, day, persisted,
                   lots, pc, pre, other, daily_trades, yahoo>>

\* valuations between the changes of a ledger
ValueNext ==
    \/ AddHolding(SeedShares, Prices)
    \/ RemoveHolding
    \/ GetHoldingsValue

ValueSpec == Init /\ [][ValueNext]_vars

\* PORTFOLIO_FILE as a process may find it when it comes from elsewhere (an
\* earlier layout, an edit by hand): a whole JSON object without the members
\* named in drop
Lacking(file, drop) ==
    { File(SelectSeq(f.members, LAMBDA m : m[1] \notin drop), f.closed) : f \in file }

\* a new process builds its Portfolio() from PORTFOLIO_FILE as it finds it
NewProcess ==
    /\ \E now \in Timestamps,
          drop \in SUBSET {"cash", "holdings", "transactions", "start_date", "day"} :
         LET q == NewPortfolio(Lacking(persisted, drop), now) IN
           /\ cash <= MaxCash
           /\ persisted' = Lacking(persisted, drop)
           /\ cash' = q.cash
           /\ holdings' = q.holdings
           /\ transactions' = q.transactions
           /\ start_date' = q.start_date
           /\ day' = q.day
           /\ lots' = LoadedLots(q.holdings)
           /\ last' = [op |-> "Portfolio", now |-> now, result |-> NoResult,
                       saved |-> FALSE]
    /\ UNCHANGED <<pc, pre, other, daily_trades, yahoo>>

\* processes that load the file, which may lack members, and trade on it
LoadNext ==
    \/ OpenHolding({"AAA"})
    \/ ExecuteTrade(SeedShares)
    \/ AdvanceDay
    \/ NewProcess

LoadSpec == Init /\ [][LoadNext]_vars

(* ------------------------------ properties ----------------------------- *)
\* every way a caller can run execute_trade in the current state
TradeInputs ==
    { <<action, symbol, shares, price, lookup>> :
        action \in ActionInputs, symbol \in SymbolInputs, shares \in AllShares,
        price \in Prices \cup {None}, lookup \in Prices \cup {None} }

\* the same without the lookup results that are never asked for
ResolvedInputs == { t \in TradeInputs : t[4] = None \/ t[5] = None }

\* the call returned a TradeResult with success = false
Rejected(o) == o.result.kind = "TradeResult" /\ ~o.result.success

\* the call left the ledger as it found it and wrote nothing
Untouched(o) == o.p = Portfolio /\ ~o.saved

\* C1: from the initial ledger, whatever execute_trade calls with positive share
\* counts and positive prices are made, accepted or not, cash is never negative.
C1_CashNonNegative == cash >= 0

C1_Witness ==
    /\ last.op = "execute_trade"
    /\ last.result.success
    /\ cash > STARTING_CASH
    /\ holdings # << >>

\* C2: a BUY whose position, (held shares + bought shares) * price, is above
\* max_position_pct of the total value is rejected by execute_buy with the
\* message about the percentage limit, and the ledger is as before.
C2_OverLimitBuyRejected ==
    \A symbol \in HeldSymbols, shares \in PosShares, price \in Prices :
      \A total_value \in buy_total_values(Portfolio) :
        LET held == IF symbol \in DOMAIN holdings THEN holdings[symbol].shares ELSE 0
        IN  (held * price + shares * price) * MaxPositionPctDen
                > MaxPositionPctNum * total_value
            => \A o \in execute_buy(Portfolio, symbol, shares, price, None) :
                 /\ Rejected(o)
                 /\ o.result.message.text = "Position would exceed"
                 /\ Untouched(o)

\* C3: in an execute_buy call the percentage check is evaluated on the snapshot
\* the trade is executed at: validation gives a verdict, and the total value it
\* uses is cash plus the holdings at one price per symbol, the traded symbol at
\* the trade's price.
C3_CheckUsesTradeSnapshot ==
    \A symbol \in HeldSymbols, shares \in PosShares, price \in Prices :
      shares * price <= cash =>
        /\ \A v \in validate_buy(Portfolio, symbol, shares, price) : v.exc = ""
        /\ \A total_value \in buy_total_values(Portfolio) :
             \E snapshot \in [DOMAIN holdings -> Prices] :
               /\ symbol \in DOMAIN holdings => snapshot[symbol] = price
               /\ total_value = cash + SumOver(holdings, snapshot, DOMAIN holdings)

\* C4: an execute_trade call that returns success = false leaves cash, holdings,
\* transactions, day and the persisted state as they were, and does not save.
C4_FailedTradeLeavesLedger ==
    [][ (last'.op = "execute_trade" /\ last'.result.kind = "TradeResult"
         /\ ~last'.result.success)
        => /\ UNCHANGED <<cash, holdings, transactions, day, persisted>>
           /\ ~last'.saved ]_vars

C4_Witness ==
    /\ last.op = "execute_trade"
    /\ last.result.kind = "TradeResult"
    /\ ~last.result.success
    /\ last.result.message.text = "Insufficient shares"
    /\ persisted # {}

\* C5: execute_trade accepts no trade whose share count is not strictly positive,
\* whose symbol is empty or whose action is neither BUY nor SELL, and such a
\* call leaves the ledger unchanged.
C5_MalformedTradeRejected ==
    \A t \in TradeInputs :
      (t[3] <= 0 \/ upper(t[2]) = "" \/ upper(t[1]) \notin {"BUY", "SELL"})
      => \A o \in execute_trade(Portfolio, t[1], t[2], t[3], t[4], t[5]) :
           ~o.result.success /\ Untouched(o)

\* C6: for a symbol of the blocked / benchmark-only set, neither a BUY nor a SELL
\* through execute_trade is accepted (none returns success = true), whatever the
\* cash, the holdings and the share count are.
C6_BlockedSymbolRejected ==
    \A t \in TradeInputs :
      (upper(t[2]) \in BlockedSymbols /\ upper(t[1]) \in {"BUY", "SELL"})
      => \A o \in execute_trade(Portfolio, t[1], t[2], t[3], t[4], t[5]) :
           ~o.result.success

\* C7: no execute_trade call raises: every call returns a TradeResult.
C7_TradeNeverRaises ==
    last.op = "execute_trade" => last.result.kind = "TradeResult"

\* shares bought and amount paid over a sequence of add_holding calls
RECURSIVE LotsShares(_)
LotsShares(b) == IF b = << >> THEN 0 ELSE Head(b)[1] + LotsShares(Tail(b))

RECURSIVE LotsCost(_)
LotsCost(b) == IF b = << >> THEN 0 ELSE Head(b)[1] * Head(b)[2] + LotsCost(Tail(b))

\* C8: after buys of s1..sn shares at p1..pn of one symbol with no sell in
\* between, cost_basis is sum(si*pi) and avg_price is sum(si*pi)/sum(si) to
\* within the rounding of one value to the cent (half a cent), however many buys
\* there were.
C8_WeightedAverage ==
    \A s \in DOMAIN holdings :
      (lots[s].pure /\ lots[s].buys # << >>) =>
        LET n    == LotsShares(lots[s].buys)
            cost == LotsCost(lots[s].buys)
        IN  /\ holdings[s].shares = n
            /\ holdings[s].cost_basis = RatOfInt(cost)
            /\ 2 * Abs(holdings[s].avg_price * n - cost) <= n

C8_Witness ==
    \E s \in DOMAIN holdings :
      /\ lots[s].pure
      /\ Len(lots[s].buys) >= 3
      /\ LotsCost(lots[s].buys) % LotsShares(lots[s].buys) # 0

\* C9: in every state reached by add_holding and remove_holding calls, each
\* holding has cost_basis = shares * avg_price to within the rounding of
\* avg_price to the cent, that is half a cent per share.
C9_CostBasisConsistent ==
    \A s \in DOMAIN holdings :
      LET h == holdings[s] IN
        2 * Abs(h.cost_basis[1] - h.shares * h.avg_price * h.cost_basis[2])
          <= h.shares * h.cost_basis[2]

C9_Witness ==
    \E s \in DOMAIN holdings :
      /\ ~lots[s].pure
      /\ holdings[s].shares >= 2
      /\ holdings[s].cost_basis # RatOfInt(holdings[s].shares * holdings[s].avg_price)

\* C10: a sell of k shares of a holding of n > k shares leaves avg_price as it
\* was, n - k shares and cost_basis * (n - k) / n, whatever the sale price, and
\* touches no other holding.
C10_PartialSell ==
    \A s \in DOMAIN holdings :
      \A k \in 1 .. (holdings[s].shares - 1), price \in Prices :
        LET h == holdings[s]
            r == remove_holding(holdings, s, k, price)
        IN  /\ r.exc = ""
            /\ DOMAIN r.holdings = DOMAIN holdings
            /\ \A x \in DOMAIN holdings \ {s} : r.holdings[x] = holdings[x]
            /\ r.holdings[s].avg_price = h.avg_price
            /\ r.holdings[s].shares = h.shares - k
            /\ r.holdings[s].cost_basis[1] * h.cost_basis[2] * h.shares
                 = h.cost_basis[1] * (h.shares - k) * r.holdings[s].cost_basis[2]

C10_Witness ==
    /\ last.op = "remove_holding"
    /\ last.result.kind = "None"
    /\ \E s \in DOMAIN holdings :
         /\ ~lots[s].pure
         /\ holdings[s].cost_basis[2] > 1

\* C11: every symbol in the holdings mapping has shares > 0, and a sell of exactly
\* holding.shares units, by remove_holding or through execute_sell, leaves the
\* symbol absent from the mapping.
C11_NoEmptyHolding ==
    /\ \A s \in DOMAIN holdings : holdings[s].shares > 0
    /\ \A s \in DOMAIN holdings, price \in Prices :
         /\ s \notin DOMAIN remove_holding(holdings, s, holdings[s].shares, price).holdings
         /\ \A o \in execute_sell(Portfolio, s, holdings[s].shares, price, None) :
              o.result.success /\ s \notin DOMAIN o.p.holdings

C11_Witness ==
    /\ last.op = "execute_trade"
    /\ last.result.success
    /\ last.result.action = "SELL"
    /\ last.result.shares = 2
    /\ last.result.symbol \notin DOMAIN holdings
    /\ holdings # << >>

\* C12: a SELL through execute_trade whose price is resolved (supplied, or found
\* by the lookup) is rejected with the ledger unchanged when the symbol is not
\* held, the reason naming the missing position, and when shares > holding.shares,
\* the reason stating the owned amount; it is accepted for every
\* 0 < shares <= holding.shares.
C12_SellValidation ==
    \A symbol \in SymbolInputs, shares \in 1 .. (MaxShares + 1),
       price \in Prices \cup {None} :
      \A lookup \in IF price = None THEN Prices ELSE {None} :
        \A o \in execute_trade(Portfolio, "SELL", symbol, shares, price, lookup) :
          IF upper(symbol) \notin DOMAIN holdings
          THEN /\ Rejected(o)
               /\ o.result.message.text = "No position"
               /\ Untouched(o)
          ELSE IF shares > holdings[upper(symbol)].shares
          THEN /\ Rejected(o)
               /\ o.result.message.text = "Insufficient shares"
               /\ o.result.message.args[1] = holdings[upper(symbol)].shares
               /\ Untouched(o)
          ELSE o.result.kind = "TradeResult" /\ o.result.success

\* a SELL of more than is held was just refused on a ledger that also has a
\* holding of another symbol, after an earlier SELL was accepted
C12_Witness ==
    /\ last.op = "execute_trade"
    /\ Rejected([result |-> last.result])
    /\ last.result.message.text = "Insufficient shares"
    /\ last.result.message.args = <<1, 2>>
    /\ Len(transactions) = 1
    /\ Cardinality(DOMAIN holdings) = 2

\* C13: when no price is supplied and the lookup returns none, execute_buy and
\* execute_sell return success = false with the message "Could not fetch
\* price", raise nothing, and leave cash, holdings, transactions and the
\* persisted state as they were.
C13_PriceUnavailable ==
    \A symbol \in HeldSymbols \cup {""}, shares \in AllShares :
      \A o \in execute_buy(Portfolio, symbol, shares, None, None)
                \cup execute_sell(Portfolio, symbol, shares, None, None) :
        /\ Rejected(o)
        /\ o.result.message.text = "Could not fetch price"
        /\ Untouched(o)

\* the lookup just failed for a trade on a ledger with holdings and a saved file
C13_Witness ==
    /\ last.op = "execute_trade"
    /\ Rejected([result |-> last.result])
    /\ last.result.message.text = "Could not fetch price"
    /\ ~last.saved
    /\ holdings # << >>
    /\ persisted # {}

\* C14: every execute_trade call that succeeds leaves the transaction list as it
\* was with exactly one Transaction appended, carrying the trade's action,
\* symbol, shares, price and total = shares * price; every call that does not
\* succeed leaves the list as it was.
C14_TransactionsAppendOnly ==
    \A t \in ResolvedInputs :
      \A o \in execute_trade(Portfolio, t[1], t[2], t[3], t[4], t[5]) :
        IF o.result.success
        THEN LET px == IF t[4] = None THEN t[5] ELSE t[4] IN
             o.p.transactions =
                 Append(transactions,
                        [action |-> upper(t[1]), symbol |-> upper(t[2]),
                         shares |-> t[3], price |-> px, total |-> t[3] * px])
        ELSE o.p.transactions = transactions

\* a trade was just accepted and recorded, and a further one can be accepted
C14_Witness ==
    /\ last.op = "execute_trade"
    /\ last.result.success
    /\ Len(transactions) = 1
    /\ transactions[1].total = last.result.total
    /\ holdings # << >>

SizingPrices == Prices \cup {2500, 40000}

\* C16: for every ledger state and positive price, get_max_shares returns
\* max(0, min(floor(cash/price), floor((total_value*max_position_pct
\* - held_shares*price)/price))), total_value being the ledger's total value;
\* it returns 0 when no price is given and the lookup has none.
C16_MaxShares ==
    \A symbol \in HeldSymbols :
      /\ get_max_shares(Portfolio, symbol, None, None) = { [exc |-> "", value |-> 0] }
      /\ \A price \in SizingPrices :
           LET held == IF symbol \in DOMAIN holdings THEN holdings[symbol].shares ELSE 0
           IN  get_max_shares(Portfolio, symbol, price, None) =
                 { [exc |-> "",
                    value |-> max(0, min(cash \div price,
                                         (tv * MaxPositionPctNum
                                            - held * price * MaxPositionPctDen)
                                           \div (price * MaxPositionPctDen)))]
                   : tv \in buy_total_values(Portfolio) }

\* a sizing query was just answered with a positive count, on a ledger that
\* holds shares and has traded
C16_Witness ==
    /\ last.op = "get_max_shares"
    /\ last.result.kind = "int"
    /\ last.result.shares > 0
    /\ holdings # << >>
    /\ transactions # << >>

\* C17: loading the persisted state and saving it again writes the same state:
\* cash, every holding's symbol, shares, cost_basis and avg_price, the
\* transaction sequence, start_date and day of the file are those of the loaded
\* object and of the file it saves, at whatever time the load is made; and the
\* state in memory is the one a load gets back from its own save.
C17_LoadSaveRoundTrip ==
    \A now \in Timestamps :
      /\ persisted # {} =>
           LET q == NewPortfolio(persisted, now) IN
             /\ save(q) = persisted
             /\ NewPortfolio(save(q), now) = q
             /\ \A f \in persisted :
                  /\ q.cash = Get(f.members, "cash", None)
                  /\ q.start_date = Get(f.members, "start_date", "")
                  /\ q.day = Get(f.members, "day", None)
                  /\ DOMAIN q.holdings = DOMAIN Get(f.members, "holdings", << >>)
                  /\ Len(q.transactions) = Len(Get(f.members, "transactions", << >>))
      /\ NewPortfolio(save(Portfolio), now) = Portfolio

\* the file holds a ledger with a holding and a transaction, saved on a later day
C17_Witness ==
    \E f \in persisted :
      /\ f.closed
      /\ Get(f.members, "holdings", << >>) # << >>
      /\ Get(f.members, "transactions", << >>) # << >>
      /\ Get(f.members, "day", 1) = 2
      /\ Get(f.members, "start_date", "") = "t1"

\* C18: if the process stops during a trade, anywhere from validation to the end
\* of the write of the file, the state the next load reads is the complete
\* state the file held before the trade or the complete state after it.
C18_CrashLeavesPreOrPost ==
    (pc = "stopped" /\ last.op = "execute_trade") =>
      \A now \in Timestamps :
        LET q == NewPortfolio(persisted, now) IN
          \/ q = NewPortfolio(pre, now)
          \/ q = Portfolio

\* the transactions and the cash a file holds
FileTransactions(file) ==
    IF file = {} THEN << >>
    ELSE Get((CHOOSE f \in file : TRUE).members, "transactions", << >>)

FileCash(file) ==
    IF file = {} THEN STARTING_CASH
    ELSE Get((CHOOSE f \in file : TRUE).members, "cash", STARTING_CASH)

\* C19: with the web endpoint and the auto-trader cycle trading on the same
\* file, no successful trade is lost from the persisted state: the save of a
\* successful trade keeps every transaction the file held, adds its own, and
\* moves the file's cash by the amount of that trade alone.
C19_NoLostTrade ==
    [][ (last'.op = "execute_trade" /\ last'.result.success)
        => /\ FileTransactions(persisted') =
                Append(FileTransactions(persisted),
                       [action |-> last'.result.action, symbol |-> last'.result.symbol,
                        shares |-> last'.result.shares, price |-> last'.result.price,
                        total |-> last'.result.total])
           /\ FileCash(persisted') = FileCash(persisted) + last'.result.total ]_vars

\* C20: when reset returns, cash is the configured starting cash, holdings and
\* transactions are empty, day is 1, and the file holds exactly that state,
\* whatever the state was before.
C20_ResetReinitializes ==
    last.op = "reset" =>
      /\ cash = STARTING_CASH
      /\ holdings = << >>
      /\ transactions = << >>
      /\ day = 1
      /\ last.saved
      /\ persisted = save(Portfolio)
      /\ \A now \in Timestamps : NewPortfolio(persisted, now) = Fresh(start_date)

\* reset has just run, at a later time than the ledger was created
C20_Witness ==
    /\ last.op = "reset"
    /\ start_date = "t1"
    /\ persisted # {}

\* C21: advance_day raises day by exactly 1, saves the state it leaves, and leaves
\* cash, holdings and transactions as they were; over any step that is not a
\* reset, day does not decrease.
C21_AdvanceDay ==
    [][ /\ last'.op = "advance_day" =>
             /\ day' = day + 1
             /\ UNCHANGED <<cash, holdings, transactions, start_date>>
             /\ last'.saved
             /\ persisted' = save([cash |-> cash, holdings |-> holdings,
                                   transactions |-> transactions,
                                   start_date |-> start_date, day |-> day + 1])
        /\ last'.op # "reset" => day' >= day ]_vars

\* the day was just advanced on a ledger that holds shares and has traded
C21_Witness ==
    /\ last.op = "advance_day"
    /\ day = 2
    /\ holdings # << >>
    /\ transactions # << >>
    /\ persisted = save(Portfolio)

\* C30: remove_holding raises an error and leaves the holdings mapping as it was
\* when the symbol is not held (no holding) and when shares > holding.shares
\* (insufficient shares); neither case deletes or changes a holding.
C30_RemoveHoldingErrors ==
    \A symbol \in HeldSymbols, shares \in 1 .. (MaxShares + 1), price \in Prices :
      LET r == remove_holding(holdings, symbol, shares, price) IN
        /\ symbol \notin DOMAIN holdings =>
             /\ r.exc = "ValueError"
             /\ r.message = "No holding"
             /\ r.holdings = holdings
        /\ (symbol \in DOMAIN holdings /\ shares > holdings[symbol].shares) =>
             /\ r.exc = "ValueError"
             /\ r.message = "Insufficient shares"
             /\ r.holdings = holdings
        /\ (symbol \in DOMAIN holdings /\ shares <= holdings[symbol].shares) =>
             r.exc = ""

\* a sell of more than is held was just refused, on a ledger that holds two
\* symbols, one of them after a partial sell
C30_Witness ==
    /\ last.op = "remove_holding"
    /\ last.result.kind = "exception"
    /\ last.result.message.text = "Insufficient shares"
    /\ Cardinality(DOMAIN holdings) = 2
    /\ \E s \in DOMAIN holdings : ~lots[s].pure

\* share counts and prices of orders that meet the cash and the percentage limit
BuySizes  == PosShares \cup {7}
BuyPrices == Prices \cup {12500}

\* C27: validate_buy checks, in this order, the blocked symbol, the cash
\* (cash >= shares*price), the position fraction and the position count, and
\* returns the reason of the first check that fails: a BUY over both the cash
\* and the position limit is reported as insufficient cash, with
\* floor(cash/price) as the most that can be afforded.
C27_BuyCheckOrder ==
    \A symbol \in HeldSymbols, shares \in BuySizes, price \in BuyPrices :
      \A v \in validate_buy(Portfolio, symbol, shares, price) :
        /\ v.exc = ""
        /\ symbol \in BlockedSymbols => (~v.valid /\ v.message.text = "benchmark symbol")
        /\ (symbol \notin BlockedSymbols /\ shares * price > cash) =>
             /\ ~v.valid
             /\ v.message = Msg("Insufficient cash", <<cash \div price>>)
        /\ (symbol \notin BlockedSymbols /\ shares * price <= cash /\ v.valid) =>
             /\ \E tv \in buy_total_values(Portfolio) :
                  LET held == IF symbol \in DOMAIN holdings
                              THEN holdings[symbol].shares ELSE 0
                  IN  (held + shares) * price * MaxPositionPctDen
                        <= MaxPositionPctNum * tv
             /\ (symbol \in DOMAIN holdings
                  \/ Cardinality(DOMAIN holdings) < MaxPositions)

\* C28: a BUY whose position, (held shares + bought shares) * price, is exactly
\* max_position_pct of the total value is accepted; the percentage check
\* rejects only a position strictly above it.
C28_ExactLimitAccepted ==
    \A symbol \in HeldSymbols \ BlockedSymbols, shares \in PosShares,
       price \in BuyPrices :
      LET held == IF symbol \in DOMAIN holdings THEN holdings[symbol].shares ELSE 0
      IN  (/\ shares * price <= cash
           /\ \A tv \in buy_total_values(Portfolio) :
                (held + shares) * price * MaxPositionPctDen = MaxPositionPctNum * tv)
          => \A v \in validate_buy(Portfolio, symbol, shares, price) :
               v.exc = "" /\ v.valid

\* a ledger with max_positions holdings of one cheap share each
PositionSymbols ==
    {"PLTR", "SOFI", "HOOD", "AFRM", "UPST", "PATH", "DKNG", "RBLX", "U", "SNAP"}

FullLedger ==
    [Portfolio EXCEPT !.holdings =
        [s \in PositionSymbols |-> Holding(s, 1, RatOfInt(100), 100)]]

\* C29: the number of held symbols never exceeds max_positions: on a ledger
\* that holds max_positions symbols a BUY of a symbol not yet held is rejected
\* for that reason, and a BUY of a symbol already held is not.
C29_MaxPositions ==
    /\ Cardinality(DOMAIN holdings) <= MaxPositions
    /\ Cardinality(PositionSymbols) = MaxPositions
    /\ \A v \in validate_buy(FullLedger, "AAA", 1, 100) :
         v.exc = "" /\ ~v.valid /\ v.message.text = "Max positions"
    /\ \A s \in PositionSymbols :
         \A v \in validate_buy(FullLedger, s, 1, 100) :
           v.exc = "" /\ v.message.text # "Max positions"

\* the ledger with a holding of two shares bought at 150.00 opened in each of
\* nine symbols of STOCK_UNIVERSE, and a snapshot that quotes them all at 130.00
LosingSymbols ==
    {"PLTR", "SOFI", "HOOD", "AFRM", "UPST", "PATH", "DKNG", "RBLX", "U"}

StopLossLedger ==
    [Portfolio EXCEPT !.holdings =
        [y \in DOMAIN holdings \cup LosingSymbols |->
            IF y \in LosingSymbols THEN Holding(y, 2, RatOfInt(30000), 15000)
            ELSE holdings[y]]]

LosingSnapshot == [y \in LosingSymbols |-> [price |-> 13000]]

Minutes(hm) == hm[1] * 60 + hm[2]

\* C24: is_market_hours returns True exactly when the Eastern-time weekday is in
\* trade_days and the time t satisfies market_open + skip_first_minutes <= t <=
\* market_close - skip_last_minutes (09:35 to 15:50), and False otherwise.
C24_MarketHours ==
    last.op \in {"main", "main --once"} =>
      LET now == last.now IN
      last.in_hours <=>
        /\ now.weekday \in SCHEDULE.trade_days
        /\ (Minutes(SCHEDULE.market_open) + SCHEDULE.skip_first_minutes) * 60
             <= Seconds(now)
        /\ \/ Seconds(now)
                < (Minutes(SCHEDULE.market_close) - SCHEDULE.skip_last_minutes) * 60
           \/ /\ Seconds(now)
                   = (Minutes(SCHEDULE.market_close) - SCHEDULE.skip_last_minutes) * 60
              /\ now.microsecond = 0

\* C25: get_stock_analysis returns no record when the symbol has no fresh gist
\* entry and the history lookup is unavailable or yields fewer than 50 bars:
\* it never builds a record from other data.
C25_InsufficientHistory ==
    ( /\ last.op = "get_stock_analysis"
      /\ last.gist = {}
      /\ (~last.live \/ Len(last.chart) < 50) )
    => last.result = {}

\* a float within [0, 100]
InRsiRange(x) ==
    x.kind = "num" /\ 0 <= x.value[1] /\ x.value[1] <= 100 * x.value[2]

\* none of the last 14 single-period deltas of the closes is a loss
NoLossInLookback(closes) ==
    \A i \in (Len(closes) - 13)..Len(closes) : closes[i] >= closes[i - 1]

\* C26: the RSI that calculate_rsi and the refresh_data computation give for a
\* close series lies in [0, 100], and is exactly 100 when the last 14 deltas of
\* the series contain no loss, the all-flat series included.
C26_RsiBoundary ==
    /\ last.op = "calculate_rsi" =>
         /\ InRsiRange(last.rsi)
         /\ NoLossInLookback(last.closes) => last.rsi = Float(<<100, 1>>)
    /\ last.op = "fetch_stock_data" =>
         \A r \in last.result :
            /\ InRsiRange(r.rsi)
            /\ NoLossInLookback(last.closes) => r.rsi = Float(<<100, 1>>)

\* the worth of one holding under a price map
Worth(holding, prices) ==
    IF holding.symbol \in DOMAIN prices
    THEN holding.shares * prices[holding.symbol]
    ELSE holding.shares * holding.avg_price

\* C31: get_holdings_value(prices) returns the sum over the holdings of
\* shares * prices[symbol] where the map has the symbol and shares * avg_price
\* where it has not, 0 for empty holdings, and changes nothing of the ledger.
C31_HoldingsValue ==
    [][ last'.op = "get_holdings_value" =>
          /\ LET f[syms \in SUBSET DOMAIN holdings] ==
                     IF syms = {} THEN 0
                     ELSE LET y == CHOOSE x \in syms : TRUE
                          IN  Worth(holdings[y], last'.used) + f[syms \ {y}]
             IN  last'.result = f[DOMAIN holdings]
          /\ DOMAIN holdings = {} => last'.result = 0
          /\ UNCHANGED <<cash, holdings, transactions, start_date, day, persisted>>
      ]_vars

\* a valuation of two holdings, one priced by the map and one not
C31_Witness ==
    /\ last.op = "get_holdings_value"
    /\ last.prices # {}
    /\ \E a \in DOMAIN holdings : a \in DOMAIN last.used /\ last.used[a] # holdings[a].avg_price
    /\ \E b \in DOMAIN holdings : b \notin DOMAIN last.used
    /\ last.result > 0

\* C32: in every state the trades lead to, the total value of the ledger, its
\* holdings valued under any map of non-negative prices, is at least 0.
C32_TotalValueNonNegative ==
    \A prices \in PriceMaps :
      \A total \in get_total_value(Portfolio, prices) : total >= 0

\* after a sale that left part of a holding, whose shares a price map may value at 0
C32_Witness ==
    /\ last.op = "execute_trade"
    /\ last.result.kind = "TradeResult"
    /\ last.result.success
    /\ last.result.action = "SELL"
    /\ \E y \in DOMAIN holdings :
         \E prices \in PriceMaps : y \in DOMAIN prices /\ prices[y] = 0

\* the value a JSON object holds under a key; the object has the key
Member(f, key) == f.members[CHOOSE i \in DOMAIN f.members : f.members[i][1] = key][2]

\* C33: a ledger built from a persisted state has, for each field the state
\* lacks, the initial value (cash the starting cash, no holdings, no
\* transactions, day 1) and for each field it has, the persisted value; built
\* with no persisted state, it is the initial ledger.
C33_LoadDefaults ==
    [][ last'.op = "Portfolio" =>
          /\ persisted' = {} =>
               /\ cash' = STARTING_CASH /\ holdings' = << >> /\ transactions' = << >>
               /\ day' = 1 /\ start_date' = last'.now
          /\ \A f \in persisted' :
               /\ cash' = IF Has(f.members, "cash") THEN Member(f, "cash")
                          ELSE STARTING_CASH
               /\ IF Has(f.members, "holdings")
                  THEN /\ DOMAIN holdings' = DOMAIN Member(f, "holdings")
                       /\ \A k \in DOMAIN holdings' :
                            \A x \in HoldingFields :
                              holdings'[k][x] = Member(f, "holdings")[k][x]
                  ELSE holdings' = << >>
               /\ IF Has(f.members, "transactions")
                  THEN /\ Len(transactions') = Len(Member(f, "transactions"))
                       /\ \A i \in DOMAIN transactions' :
                            \A x \in TransactionFields :
                              transactions'[i][x] = Member(f, "transactions")[i][x]
                  ELSE transactions' = << >>
               /\ day' = IF Has(f.members, "day") THEN Member(f, "day") ELSE 1
               /\ Has(f.members, "start_date") => start_date' = Member(f, "start_date")
      ]_vars

\* a ledger built from a file that has holdings from a later day but neither
\* the cash nor the transactions
C33_Witness ==
    /\ last.op = "Portfolio"
    /\ \E f \in persisted :
         /\ ~Has(f.members, "cash")
         /\ ~Has(f.members, "transactions")
         /\ Has(f.members, "holdings") /\ Member(f, "holdings") # << >>
         /\ Has(f.members, "day") /\ Member(f, "day") = 2
    /\ holdings # << >>
    /\ day = 2

\* the holding has market data and is down more than max_single_loss_pct
\* against its avg_price
StopLossDue(holding, market_data) ==
    /\ holding.symbol \in DOMAIN market_data
    /\ (holding.avg_price - market_data[holding.symbol].price) * 100
         > GUARDRAILS.max_single_loss_pct * holding.avg_price

ReturnsOf(r, closes) ==
    LET n == Len(closes) IN
      /\ r.daily_change   \in Change(closes[n], closes[n - 1])
      /\ r.weekly_change  \in Change(closes[n], closes[n - 5])
      /\ r.monthly_change \in Change(closes[n], closes[n - 20])

\* C36: for a history of at least 50 closes, the record of get_stock_analysis
\* and that of fetch_stock_data give as daily_change, weekly_change and
\* monthly_change the percentage change of the latest close against the close
\* 1 bar, 5 bars and 20 bars before it.
C36_PeriodReturns ==
    /\ ( /\ last.op = "get_stock_analysis"
         /\ last.gist = {} /\ last.live /\ Len(last.chart) >= 50 )
       => \A r \in last.result : ReturnsOf(r, last.chart)
    /\ (last.op = "fetch_stock_data" /\ last.meta_price = None)
       => \A r \in last.result : ReturnsOf(r, last.closes)

\* the mean true range of the last 14 bars: high - low for the first bar of the
\* window, and for the others the largest of high - low, |high - previous
\* close| and |low - previous close|
WindowAtr(frame) ==
    LET n  == Len(frame.Close)
        tr == [j \in 1..14 |->
                 LET i == n - 14 + j
                     hl == frame.High[i] - frame.Low[i]
                 IN  IF j = 1 THEN hl
                     ELSE max(hl, max(Abs(frame.High[i] - frame.Close[i - 1]),
                                      Abs(frame.Low[i] - frame.Close[i - 1])))]
    IN  Rat(Sum(tr, 1, 14), 14)

\* C35: on a history of at least 50 bars the atr of get_stock_analysis (by
\* calculate_atr) and the atr of fetch_stock_data are both the mean true range
\* of the last 14 bars, with high - low alone for the first bar of the window,
\* and so are the same.
C35_AtrAgreement ==
    /\ ( /\ last.op = "get_stock_analysis"
         /\ last.gist = {} /\ last.live /\ Len(last.chart) >= 50 )
       => \A r \in last.result :
            /\ r.atr \in RoundCents(WindowAtr(last.frame))
            /\ \E g \in fetch_stock_data("PLTR", last.frame, None) : g.atr = r.atr
    /\ last.op = "fetch_stock_data"
       => \A r \in last.result : r.atr \in RoundCents(WindowAtr(last.frame))

\* C37: screen_stocks returns exactly the analysis records of this call with
\* atr >= min_atr, avg_volume >= min_avg_volume and min_price <= price <=
\* max_price, each once and in the order of the symbols, whatever the call
\* before it returned
MeetsScreening(a) ==
    /\ a.atr >= SCREENING.min_atr
    /\ a.avg_volume >= SCREENING.min_avg_volume
    /\ SCREENING.min_price <= a.price
    /\ a.price <= SCREENING.max_price

C37_ScreenExact ==
    last.op = "screen_stocks" =>
      LET kept == { i \in 1..Len(last.symbols) :
                      \E a \in last.analysis[last.symbols[i]] : MeetsScreening(a) }
      IN
      /\ Len(last.result) = Cardinality(kept)
      /\ \A k \in 1..Len(last.result) :
           /\ MeetsScreening(last.result[k])
           /\ \E i \in kept :
                /\ last.result[k] \in last.analysis[last.symbols[i]]
                /\ Cardinality({ j \in kept : j < i }) = k - 1

C37_Witness ==
    /\ last.op = "screen_stocks"
    /\ last.again
    /\ Len(last.symbols) = 2
    /\ Len(last.result) = 1
    /\ last.result[1].symbol = "SOFI"
    /\ last.result[1].atr = SCREENING.min_atr
    /\ last.result[1].avg_volume = SCREENING.min_avg_volume
    /\ last.result[1].price = SCREENING.max_price
    /\ \E a \in last.analysis["PLTR"] : a.price > SCREENING.max_price
\* C38: in every state that execute_trade calls lead to, cash is the starting
\* cash, less shares * price of every recorded BUY, plus shares * price of
\* every recorded SELL
RECURSIVE Replayed(_, _)
Replayed(txs, k) ==
    IF k = 0 THEN STARTING_CASH
    ELSE Replayed(txs, k - 1)
         + (IF txs[k].action = "BUY" THEN -(txs[k].shares * txs[k].price)
            ELSE IF txs[k].action = "SELL" THEN txs[k].shares * txs[k].price
            ELSE 0)

PassesCashAndSize(v) ==
    /\ v.exc = ""
    /\ v.message.text \notin {"Insufficient cash", "Position would exceed"}

C39_MaxSharesIsTheLimit ==
    \A symbol \in HeldSymbols, price \in Prices :
      \A r \in get_max_shares(Portfolio, symbol, price, None) :
        r.exc = "" =>
          /\ \A v \in validate_buy(Portfolio, symbol, r.value, price) :
               PassesCashAndSize(v)
          /\ \A v \in validate_buy(Portfolio, symbol, r.value + 1, price) :
               ~PassesCashAndSize(v)
\* C40: in a call made less than 300 seconds after a 429 set the rate-limit
\* flag, _fetch_yahoo_chart sends no request and returns nothing; the first
\* call at or after that deadline clears the flag and sends a request again;
\* and after a 429 from the first endpoint the second is still asked in the
\* same call
IsFetch == last.op = "_fetch_yahoo_chart"

ExpiredOrFirst429 ==
    /\ (IsFetch /\ last.limited /\ last.at >= last.until)
         => /\ last.requests # << >>
            /\ _rate_limited => _rate_limit_until = last.at + Backoff
    /\ (IsFetch /\ last.requests # << >> /\ last.responses[1] = "429")
         => last.requests = YAHOO_ENDPOINTS

C40_Backoff ==
    /\ (IsFetch /\ last.until > 0 /\ last.at < last.until)
         => (last.requests = << >> /\ last.result = "None")
    /\ ExpiredOrFirst429

\* C40 as amended: the calls before the deadline are idle while the flag is
\* set; a chart from the second endpoint clears it in the same call
C40_BackoffWhileFlagged ==
    /\ (IsFetch /\ last.limited /\ last.at < last.until)
         => /\ last.requests = << >> /\ last.result = "None"
            /\ _rate_limited /\ _rate_limit_until = last.until
    /\ (IsFetch /\ last.requests # << >> /\ last.result = "chart") => ~_rate_limited
    /\ (IsFetch /\ last.requests # << >> /\ last.result = "None")
         => (_rate_limited <=> \E k \in 1..Len(last.responses) : last.responses[k] = "429")
    /\ ExpiredOrFirst429

C40_Witness ==
    /\ IsFetch
    /\ last.limited
    /\ last.at > 0
    /\ last.at < last.until
    /\ last.until = _rate_limit_until
    /\ last.requests = << >>
====
